---- MODULE Spec2Model ----
(***************************************************************************)
(* Model of the metering reverse proxy (API gateway): the request pipeline *)
(* authenticate -> rateLimiter -> proxy handler, with the Redis-backed     *)
(* rate counters, response cache and budget ledger, and the PostgreSQL     *)
(* usage table.                                                            *)
(*                                                                         *)
(* One action is one segment of code between two awaits: the external call *)
(* (Redis command, SQL query, upstream fetch) executes and the JavaScript  *)
(* continuation runs synchronously up to the next external call.           *)
(***************************************************************************)
EXTENDS Integers, Sequences, FiniteSets, TLC

VARIABLES
    now,          \* wall clock, in ticks of 30 seconds
    req,          \* req[r]: the state of inbound request r (Express req/res pair)
    counters,     \* Redis keys rate_limit:*  key -> [val, exp]
    cacheStore,   \* Redis keys cache:*       key -> [val, exp]
    budgetStore,  \* Redis keys budget:*      key -> [val, exp]
    requests,     \* PostgreSQL table requests: the usage records, in append order
    incrs,        \* history: number of INCR commands executed so far, per counter key
    cacheLog,     \* history: the last successful setCachedResponse, per cache key
    faults,       \* history: number of external calls that have failed so far
    args,         \* inputs of the pure function under evaluation
    result        \* its outputs

vars == <<now, req, counters, cacheStore, budgetStore, requests, incrs, cacheLog, faults,
          args, result>>

None == <<"none">>          \* an unset field holding a string, number or tuple
NoRec == [none |-> TRUE]     \* an unset field holding a record
IsSet(rec) == "none" \notin DOMAIN rec

(***************************************************************************)
(* Bounds of the model                                                     *)
(***************************************************************************)
NumReqs == 2          \* inbound requests in flight in the general pipeline
NumRateReqs == 3      \* inbound requests in the rate-limiter scenario
MaxMissFaults == 2    \* external calls that fail in one behaviour of SpecMiss
MaxSpend == 120       \* checkBudgetStatus is applied to the spendings 0..MaxSpend
MaxSegments == 3      \* detectBackend is applied to paths of up to this many segments
MaxTicks == 2         \* the clock makes this many ticks of 30 seconds

(***************************************************************************)
(* JavaScript values.  A value is a tagged tuple:                          *)
(*   <<"s", str>>  string        <<"n", int>>  number                      *)
(*   <<"b", bool>> boolean       <<"null">>    null                        *)
(*   <<"a", seq>>  array         <<"o", seq of <<key, value>> >> object,   *)
(* an object keeping the insertion order of its keys.                      *)
(***************************************************************************)
JS(s) == <<"s", s>>
JN(n) == <<"n", n>>
JB(b) == <<"b", b>>
JNull == <<"null">>
JA(elems) == <<"a", elems>>
JO(pairs) == <<"o", pairs>>

Tag(v) == v[1]
IsObj(v) == Tag(v) = "o"
IsArr(v) == Tag(v) = "a"

\* Object.keys(obj): own keys in insertion order
ObjectKeys(v) == [i \in 1..Len(v[2]) |-> v[2][i][1]]

HasKey(v, k) == IsObj(v) /\ \E i \in 1..Len(v[2]) : v[2][i][1] = k

\* obj[k] for an object that has the key
GetField(v, k) == v[2][CHOOSE i \in 1..Len(v[2]) : v[2][i][1] = k][2]

SeqToSet(s) == {s[i] : i \in 1..Len(s)}

(***************************************************************************)
(* Array.prototype.sort() on strings: the keys that occur in the model, in *)
(* UTF-16 code unit order.                                                 *)
(***************************************************************************)
KeyOrder == <<"content", "messages", "model", "role", "stream", "temperature">>

RECURSIVE FilterSeq(_, _)
FilterSeq(s, S) ==
    IF s = <<>> THEN <<>>
    ELSE IF Head(s) \in S THEN <<Head(s)>> \o FilterSeq(Tail(s), S)
         ELSE FilterSeq(Tail(s), S)

\* a hashObject that forgets to sort: the keys in insertion order
SortKeys_Unsorted(keys) == keys

SortKeys(keys) == FilterSeq(KeyOrder, SeqToSet(keys))

(***************************************************************************)
(* JSON text.  The text produced by JSON.stringify is represented by its   *)
(* token tree: <<"ts", str>>, <<"tn", int>>, <<"tb", bool>>, <<"tnull">>,  *)
(* <<"ta", seq>>, <<"to", seq of <<key, text>> >>.  Two texts are equal    *)
(* exactly when their trees are equal (stringify emits no whitespace).     *)
(***************************************************************************)
RECURSIVE StringifyAllow(_, _)
RECURSIVE StringifyMembers(_, _, _)

\* the members of object v that the replacer array `allow` lets through, in the
\* order of `allow`
StringifyMembers(value, keys, allowed) ==
    CHOOSE members \in
        {IF ks = <<>> THEN <<>>
         ELSE IF HasKey(v, Head(ks))
              THEN << <<Head(ks), StringifyAllow(GetField(v, Head(ks)), allow)>> >>
                       \o StringifyMembers(v, Tail(ks), allow)
              ELSE StringifyMembers(v, Tail(ks), allow) :
         v \in {value}, ks \in {keys}, allow \in {allowed}} : TRUE

\* JSON.stringify(v, allow) with an array replacer: at EVERY nesting level only
\* the properties named in `allow` are serialized; array elements are all kept
StringifyAllow(value, allowed) ==
    CHOOSE text \in
        {CASE Tag(v) = "s" -> <<"ts", v[2]>>
           [] Tag(v) = "n" -> <<"tn", v[2]>>
           [] Tag(v) = "b" -> <<"tb", v[2]>>
           [] Tag(v) = "null" -> <<"tnull">>
           [] Tag(v) = "a" -> <<"ta", [i \in 1..Len(v[2]) |-> StringifyAllow(v[2][i], allow)]>>
           [] Tag(v) = "o" -> <<"to", StringifyMembers(v, allow, allow)>> :
         v \in {value}, allow \in {allowed}} : TRUE

\* JSON.stringify(v) without a replacer: every property, in insertion order
RECURSIVE Stringify(_)
Stringify(value) ==
    CHOOSE text \in
        {CASE Tag(v) = "s" -> <<"ts", v[2]>>
           [] Tag(v) = "n" -> <<"tn", v[2]>>
           [] Tag(v) = "b" -> <<"tb", v[2]>>
           [] Tag(v) = "null" -> <<"tnull">>
           [] Tag(v) = "a" -> <<"ta", [i \in 1..Len(v[2]) |-> Stringify(v[2][i])]>>
           [] Tag(v) = "o" ->
                  <<"to", [i \in 1..Len(v[2]) |-> <<v[2][i][1], Stringify(v[2][i][2])>>]>> :
         v \in {value}} : TRUE

\* a getCachedResponse that hands out the stored text unparsed
JsonParse_Raw(t) == t

\* JSON.parse(text)
RECURSIVE JsonParse(_)
JsonParse(t) ==
    CASE Tag(t) = "ts" -> <<"s", t[2]>>
      [] Tag(t) = "tn" -> <<"n", t[2]>>
      [] Tag(t) = "tb" -> <<"b", t[2]>>
      [] Tag(t) = "tnull" -> <<"null">>
      [] Tag(t) = "ta" -> <<"a", [i \in 1..Len(t[2]) |-> JsonParse(t[2][i])]>>
      [] Tag(t) = "to" -> <<"o", [i \in 1..Len(t[2]) |-> <<t[2][i][1], JsonParse(t[2][i][2])>>]>>

(***************************************************************************)
(* Request paths are sequences of tokens, "/" being a token of its own, so *)
(* that startsWith / includes / replace act on them as on the strings.     *)
(***************************************************************************)
PathChat == <<"/", "v1", "/", "chat", "/", "completions">>
PathChatUnderscore == <<"/", "v1", "/", "chat", "_", "completions">>
PathMessages == <<"/", "v1", "/", "messages">>
PathUnknown == <<"/", "status">>
PathAnthropic == <<"/", "anthropic", "/", "v1", "/", "messages">>

\* endpoint.replace(/\//g, '_')
SanitizeEndpoint(endpoint) ==
    [i \in 1..Len(endpoint) |-> IF endpoint[i] = "/" THEN "_" ELSE endpoint[i]]

\* createHash('md5').update(str).digest('hex').substring(0, 16): the digest is
\* taken to be collision free on the texts of the model
Md5Hex16(str) == <<"md5", str>>

\* hashObject(obj)
hashObject(obj) == Md5Hex16(StringifyAllow(obj, SortKeys(ObjectKeys(obj))))

\* generateCacheKey(endpoint, requestBody)
generateCacheKey(endpoint, requestBody) ==
    <<"cache", SanitizeEndpoint(endpoint), hashObject(requestBody)>>

(***************************************************************************)
(* Configuration (config/environment) and program constants                *)
(***************************************************************************)
features_rateLimiting == TRUE      \* ENABLE_RATE_LIMITING, default true
features_caching == TRUE           \* ENABLE_CACHING, default true
features_budgetAlerts == TRUE      \* ENABLE_BUDGET_ALERTS, default true
defaults_rateLimitPerMinute == 100 \* DEFAULT_RATE_LIMIT_PER_MINUTE
RateWindowSeconds == 60            \* setExpiration(rateLimitKey, 60)
RetryAfterSeconds == 60            \* retryAfter: 60
BudgetTtlSeconds == 172800         \* 60 * 60 * 48
SecondsPerMinute == 60
SecondsPerDay == 86400

\* CACHE_TTL_SECONDS as configured for the model (the default of 3600 lies
\* beyond the horizon of MaxTicks ticks), and the length of one clock tick
features_cacheTTL == 60
TickSeconds == SecondsPerMinute \div 2

NoTtl == -1

(***************************************************************************)
(* The api_keys table.  It is read-only to the pipeline.  Money is counted *)
(* in units of 1e-8 USD.                                                   *)
(***************************************************************************)
ApiKeyRows ==
    { [key |-> "gw_a", id |-> "key-a", userId |-> "alice",
       rateLimitPerMinute |-> 1, dailyBudgetUsd |-> 1000000, isActive |-> TRUE],
      [key |-> "gw_b", id |-> "key-b", userId |-> "alice",
       rateLimitPerMinute |-> 2, dailyBudgetUsd |-> 1000000, isActive |-> TRUE],
      [key |-> "gw_old", id |-> "key-old", userId |-> "alice",
       rateLimitPerMinute |-> 2, dailyBudgetUsd |-> 1000000, isActive |-> FALSE],
      [key |-> "gw_low", id |-> "key-low", userId |-> "bob",
       rateLimitPerMinute |-> 2, dailyBudgetUsd |-> 300000, isActive |-> TRUE],
      [key |-> "gw_mid", id |-> "key-mid", userId |-> "carol",
       rateLimitPerMinute |-> 2, dailyBudgetUsd |-> 400000, isActive |-> TRUE] }

\* values of the X-API-Key header: "" stands for a request without the header
NoHeader == ""
AllHeaders == {NoHeader, "gw_unknown", "gw_old", "gw_a", "gw_b"}
ValidHeaders == {"gw_a", "gw_b"}
BadHeaders == {NoHeader, "gw_unknown", "gw_old"}

\* ApiKey.findByKey(key): SELECT * FROM api_keys WHERE key = $1 AND is_active = true
findByKey(key) ==
    IF \E row \in ApiKeyRows : row.key = key /\ row.isActive
    THEN CHOOSE row \in ApiKeyRows : row.key = key /\ row.isActive
    ELSE NoRec

(***************************************************************************)
(* Request bodies                                                          *)
(***************************************************************************)
Message(content) == JO(<< <<"role", JS("user")>>, <<"content", JS(content)>> >>)

BodyHello ==
    JO(<< <<"model", JS("gpt-4")>>, <<"messages", JA(<<Message("Hello")>>)>> >>)
BodyHelloReordered ==
    JO(<< <<"messages", JA(<<Message("Hello")>>)>>, <<"model", JS("gpt-4")>> >>)
BodyBye ==
    JO(<< <<"model", JS("gpt-4")>>, <<"messages", JA(<<Message("Bye")>>)>> >>)
BodyTurbo ==
    JO(<< <<"model", JS("gpt-3.5-turbo")>>, <<"messages", JA(<<Message("Hello")>>)>> >>)

(***************************************************************************)
(* The Redis keyspaces: a store maps a key to [val, exp], exp being the    *)
(* second at which the key expires, or NoTtl.                              *)
(***************************************************************************)
EmptyStore == <<>>

Put(store, k, v) == [x \in DOMAIN store \cup {k} |-> IF x = k THEN v ELSE store[x]]

\* keys are dropped at the tick at which they expire
Purge(store, t) ==
    [x \in {k \in DOMAIN store : store[k].exp = NoTtl \/ store[k].exp > t} |-> store[x]]

\* redisClient.get(key)
RedisGet(store, k) == IF k \in DOMAIN store THEN store[k].val ELSE None

\* redisClient.incr(key): a missing key counts from 0 and gets no expiration
RedisIncr(store, k) ==
    IF k \in DOMAIN store
    THEN Put(store, k, [val |-> store[k].val + 1, exp |-> store[k].exp])
    ELSE Put(store, k, [val |-> 1, exp |-> NoTtl])

\* redisClient.expire(key, seconds): no effect on a missing key
RedisExpire(store, k, seconds, t) ==
    IF k \in DOMAIN store
    THEN Put(store, k, [val |-> store[k].val, exp |-> t + seconds])
    ELSE store

\* redisClient.setEx(key, ttl, value) / redisClient.set(key, value)
RedisSet(store, k, value, ttlSeconds, t) ==
    Put(store, k, [val |-> value,
                   exp |-> IF ttlSeconds # 0 THEN t + ttlSeconds ELSE NoTtl])

Max(a, b) == IF a >= b THEN a ELSE b

(***************************************************************************)
(* Inbound requests                                                        *)
(***************************************************************************)
AllReqs == 1..Max(NumReqs, NumRateReqs)

NoResponse == 0

\* a request that has not arrived yet
IdleReq ==
    [pc |-> "idle",
     hdr |-> NoHeader, path |-> <<>>, body |-> JNull,  \* what the client sent
     apiKey |-> NoRec,         \* req.apiKey (req.userId is apiKey.userId)
     rlKey |-> None,           \* rateLimitKey
     rlAt |-> NoTtl,           \* history: second at which the INCR executed
     ordinal |-> 0,            \* history: the INCR was the n-th ever on rlKey
     count |-> 0,              \* requestCount
     limit |-> 0,              \* X-RateLimit-Limit
     remaining |-> 0,          \* X-RateLimit-Remaining
     backend |-> "null",
     cacheKey |-> None,
     hit |-> None,             \* cacheResult.data on a hit
     lookup |-> NoRec,         \* history: the cache lookup (see CacheGet)
     fwd |-> NoRec,            \* proxyResponse
     costInfo |-> NoRec,
     budgetKey |-> None,
     newSpending |-> 0,
     statusCode |-> NoResponse,  \* status of the response sent to the client
     resBody |-> None,
     xCache |-> "",
     sent |-> 0,               \* history: number of responses sent
     authNext |-> 0,           \* history: calls of next() by authenticate
     authFailed |-> FALSE,     \* history: findByKey threw
     after |-> {},             \* history: the requests answered before this one arrived
     cacheSetAt |-> NoTtl,     \* history: second at which setCachedResponse returned
     seenSpending |-> 0,       \* history: the total in the ledger when addToBudget read it
     readDuring |-> {},        \* history: the calls between read and write at that moment
     fwdError |-> "",          \* history: what failed inside forwardRequest
     prevSpending |-> 0,       \* history: the total in the ledger when addToBudget wrote
     rlNext |-> 0,             \* history: calls of next() by rateLimiter
     fx |-> {}]                \* history: the external effects of the request

\* the fields of q overridden by those of the record `changes`.  (The arguments
\* are bound by a quantifier over a singleton, here and in the recursive
\* operators on JSON values, so that each is evaluated once.)
With(q, changes) ==
    CHOOSE w \in {[f \in DOMAIN old |-> IF f \in DOMAIN new THEN new[f] ELSE old[f]] :
                     old \in {q}, new \in {changes}} : TRUE

\* res.status(code).json(body): the response is sent and the request is over
Send(q, code, body) ==
    With(q, [pc |-> "done", statusCode |-> code, resBody |-> body, sent |-> q.sent + 1])

Minute(t) == t \div SecondsPerMinute
Day(t) == t \div SecondsPerDay

(***************************************************************************)
(* proxyService: detectBackend                                             *)
(***************************************************************************)
StartsWith(path, prefix) ==
    Len(path) >= Len(prefix) /\ SubSeq(path, 1, Len(prefix)) = prefix

Includes(path, part) ==
    \E i \in 1..Len(path) :
        i + Len(part) - 1 <= Len(path) /\ SubSeq(path, i, i + Len(part) - 1) = part

\* a resolver that falls back to a provider instead of null
detectBackend_Fallback(endpoint) == "openai"

detectBackend(endpoint) ==
    IF StartsWith(endpoint, <<"/", "v1", "/">>) \/ StartsWith(endpoint, <<"/", "openai", "/">>)
    THEN "openai"
    ELSE IF StartsWith(endpoint, <<"/", "v1", "/", "messages">>)
            \/ StartsWith(endpoint, <<"/", "anthropic", "/">>)
    THEN "anthropic"
    ELSE IF Includes(endpoint, <<"/", "chat", "/", "completions">>)
            \/ Includes(endpoint, <<"/", "completions">>)
    THEN "openai"
    ELSE "null"

(***************************************************************************)
(* proxyService: prepareHeaders.  A header set is a function from header   *)
(* names to values; a credential that is not configured is "".             *)
(***************************************************************************)
\* a prepareHeaders that forwards the gateway key as well
forwardHeaders_WithGatewayKey == <<"user-agent", "accept", "accept-encoding", "x-api-key">>

\* const forwardHeaders = ['user-agent', 'accept', 'accept-encoding']
forwardHeaders == <<"user-agent", "accept", "accept-encoding">>

\* originalHeaders[header] is truthy: the header is there and not empty
HasHeader(headers, name) == name \in DOMAIN headers /\ headers[name] # ""

\* headers[name] = value
SetHeader(headers, name, value) ==
    [n \in DOMAIN headers \cup {name} |-> IF n = name THEN value ELSE headers[n]]

\* the backend-specific authentication
AuthHeaders(backend, apiKey) ==
    IF backend = "openai"
    THEN SetHeader([n \in {"Content-Type"} |-> "application/json"],
                   "Authorization", "Bearer " \o apiKey)
    ELSE SetHeader(SetHeader([n \in {"Content-Type"} |-> "application/json"],
                             "x-api-key", apiKey),
                   "anthropic-version", "2023-06-01")

\* forwardHeaders.forEach(header => { if (originalHeaders[header]) ... })
RECURSIVE CopyHeaders(_, _, _)
CopyHeaders(headers, names, originalHeaders) ==
    IF names = <<>> THEN headers
    ELSE CopyHeaders(IF HasHeader(originalHeaders, Head(names))
                     THEN SetHeader(headers, Head(names), originalHeaders[Head(names)])
                     ELSE headers,
                     Tail(names), originalHeaders)

\* prepareHeaders(backend, originalHeaders) with getBackendApiKey(backend) =
\* apiKey: it throws when the credential is not configured
prepareHeaders(backend, originalHeaders, apiKey) ==
    IF apiKey = "" THEN [threw |-> TRUE, headers |-> <<>>]
    ELSE [threw |-> FALSE,
          headers |-> CopyHeaders(AuthHeaders(backend, apiKey), forwardHeaders,
                                  originalHeaders)]

(***************************************************************************)
(* routes/proxy: the handler from its entry up to the first await.         *)
(* Step 1 detects the backend (400 when there is none), step 2 starts the  *)
(* cache lookup.                                                           *)
(***************************************************************************)
\* a handler that sends the 400 and, its `return` missing, goes on to the
\* cache lookup
HandlerEnter_NoReturn(q) ==
    LET backend == detectBackend(q.path)
        h == With(q, [backend |-> backend, fx |-> q.fx \cup {"detect"},
                      cacheKey |-> generateCacheKey(q.path, q.body), pc |-> "cache_get"]) IN
    IF backend = "null"
    THEN With(h, [statusCode |-> 400, resBody |-> JO(<< <<"error", JS("Bad Request")>> >>),
                  sent |-> q.sent + 1])
    ELSE h

HandlerEnter(q) ==
    LET backend == detectBackend(q.path) IN
    IF backend = "null"
    THEN Send(With(q, [fx |-> q.fx \cup {"detect"}]), 400,
              JO(<< <<"error", JS("Bad Request")>> >>))
    ELSE IF ~features_caching
    THEN With(q, [backend |-> backend, fx |-> q.fx \cup {"detect"}, pc |-> "forward"])
    ELSE With(q, [backend |-> backend, fx |-> q.fx \cup {"detect"},
                  cacheKey |-> generateCacheKey(q.path, q.body), pc |-> "cache_get"])

(***************************************************************************)
(* middleware/rateLimiter                                                  *)
(***************************************************************************)
\* apiKey?.rateLimitPerMinute || config.defaults.rateLimitPerMinute
RateLimitOf(apiKey) ==
    IF ~IsSet(apiKey) \/ apiKey.rateLimitPerMinute = 0
    THEN defaults_rateLimitPerMinute
    ELSE apiKey.rateLimitPerMinute

\* req.userId || 'anonymous'
UserIdOf(q) == IF IsSet(q.apiKey) THEN q.apiKey.userId ELSE "anonymous"

\* a limiter that counts per API key instead of per user
RateLimitKey_PerApiKey(q, t) ==
    <<(IF IsSet(q.apiKey) THEN q.apiKey.id ELSE "anonymous"), q.path, Minute(t)>>

\* `rate_limit:${userId}:${endpoint}:${currentMinute}`
RateLimitKey(q, t) == <<UserIdOf(q), q.path, Minute(t)>>

\* rateLimiter from its entry up to `await incrementCounter(rateLimitKey)`
RateLimiterEnter(q, t) ==
    IF ~features_rateLimiting
    THEN HandlerEnter(With(q, [rlNext |-> q.rlNext + 1]))
    ELSE With(q, [limit |-> RateLimitOf(q.apiKey), rlKey |-> RateLimitKey(q, t),
                  pc |-> "rl_incr"])

\* a limiter that denies nothing
OverLimit_Never(requestCount, rateLimit) == FALSE

\* a limiter that also denies the request that reaches the quota
OverLimit_AtLimit(requestCount, rateLimit) == requestCount >= rateLimit

\* the comparison that denies a request
OverLimit(requestCount, rateLimit) == requestCount > rateLimit

\* a remaining count that is not cut off at 0
Remaining_Unclamped(rateLimit, requestCount) == rateLimit - requestCount

\* const remaining = Math.max(0, rateLimit - requestCount)
Remaining(rateLimit, requestCount) == Max(0, rateLimit - requestCount)

\* a limiter that sends the 429 and, its `return` missing, goes on to next()
RateLimiterDecide_NoReturn(q) ==
    LET h == With(q, [remaining |-> Remaining(q.limit, q.count)]) IN
    IF OverLimit(q.count, q.limit)
    THEN HandlerEnter(With(Send(h, 429, JO(<< <<"error", JS("Too Many Requests")>>,
                                              <<"retryAfter", JN(RetryAfterSeconds)>>,
                                              <<"limit", JN(q.limit)>>,
                                              <<"remaining", JN(0)>> >>)),
                           [rlNext |-> q.rlNext + 1]))
    ELSE HandlerEnter(With(h, [rlNext |-> q.rlNext + 1]))

\* rateLimiter after the counter calls: headers, then 429 or next()
RateLimiterDecide(q) ==
    LET remaining == Remaining(q.limit, q.count)
        h == With(q, [remaining |-> remaining]) IN
    IF OverLimit(q.count, q.limit)
    THEN Send(h, 429, JO(<< <<"error", JS("Too Many Requests")>>,
                            <<"retryAfter", JN(RetryAfterSeconds)>>,
                            <<"limit", JN(q.limit)>>,
                            <<"remaining", JN(0)>> >>))
    ELSE HandlerEnter(With(h, [rlNext |-> q.rlNext + 1]))

\* a limiter that fails closed
RateLimiterCatch_FailClosed(q) ==
    Send(With(q, [fx |-> q.fx \cup {"rl_error"}]), 429,
         JO(<< <<"error", JS("Too Many Requests")>> >>))

\* the catch block of rateLimiter: the request is let through
RateLimiterCatch(q) ==
    HandlerEnter(With(q, [rlNext |-> q.rlNext + 1, fx |-> q.fx \cup {"rl_error"}]))

(***************************************************************************)
(* utils/pricing.  Prices are per token, in units of 1e-8 USD.  A model    *)
(* name is looked up as a string; for String.includes it is cut into parts *)
(* (NameParts) such that one name contains another as a substring exactly  *)
(* when its parts contain the other's parts as a contiguous run.           *)
(***************************************************************************)
Price(p, c) == [promptPricePerToken |-> p, completionPricePerToken |-> c]

\* PRICING_TABLE, in the order of Object.entries
PRICING_TABLE ==
    << <<"gpt-4", Price(3000, 6000)>>,
       <<"gpt-4-turbo", Price(1000, 3000)>>,
       <<"gpt-4-turbo-preview", Price(1000, 3000)>>,
       <<"gpt-4-0125-preview", Price(1000, 3000)>>,
       <<"gpt-3.5-turbo", Price(150, 200)>>,
       <<"gpt-3.5-turbo-16k", Price(300, 400)>>,
       <<"claude-3-opus-20240229", Price(1500, 7500)>>,
       <<"claude-3-sonnet-20240229", Price(300, 1500)>>,
       <<"claude-3-haiku-20240307", Price(25, 125)>>,
       <<"claude-2.1", Price(800, 2400)>>,
       <<"claude-2", Price(800, 2400)>>,
       <<"gpt-4-1106-preview", Price(1000, 3000)>>,
       <<"claude-opus", Price(1500, 7500)>>,
       <<"claude-sonnet", Price(300, 1500)>>,
       <<"claude-haiku", Price(25, 125)>> >>

\* model.toLowerCase(), cut into parts
NameParts(name) ==
    CASE name = "gpt-4" -> <<"gpt", "-4">>
      [] name = "gpt-4-turbo" -> <<"gpt", "-4", "-turbo">>
      [] name = "gpt-4-turbo-preview" -> <<"gpt", "-4", "-turbo", "-preview">>
      [] name = "gpt-4-0125-preview" -> <<"gpt", "-4", "-0125", "-preview">>
      [] name = "gpt-3.5-turbo" -> <<"gpt", "-3.5", "-turbo">>
      [] name = "gpt-3.5-turbo-16k" -> <<"gpt", "-3.5", "-turbo", "-16k">>
      [] name = "claude-3-opus-20240229" -> <<"claude", "-3", "-opus", "-20240229">>
      [] name = "claude-3-sonnet-20240229" -> <<"claude", "-3", "-sonnet", "-20240229">>
      [] name = "claude-3-haiku-20240307" -> <<"claude", "-3", "-haiku", "-20240307">>
      [] name = "claude-2.1" -> <<"claude", "-2", ".1">>
      [] name = "claude-2" -> <<"claude", "-2">>
      [] name = "gpt-4-1106-preview" -> <<"gpt", "-4", "-1106", "-preview">>
      [] name = "claude-opus" -> <<"claude", "-opus">>
      [] name = "claude-sonnet" -> <<"claude", "-sonnet">>
      [] name = "claude-haiku" -> <<"claude", "-haiku">>
      [] name = "GPT-4-0613" -> <<"gpt", "-4", "-0613">>
      [] name = "my-model" -> <<"my", "-model">>
      [] name = "GPT-4" -> <<"gpt", "-4">>
      [] name = "GPT-4-TURBO" -> <<"gpt", "-4", "-turbo">>
      [] name = "gpt-4-turbo-2024-04-09" -> <<"gpt", "-4", "-turbo", "-2024-04-09">>
      [] name = "gpt-3.5-turbo-16k-0613" -> <<"gpt", "-3.5", "-turbo", "-16k", "-0613">>
      [] name = "gpt-3.5" -> <<"gpt", "-3.5">>
      [] name = "anthropic/claude-2.1" -> <<"anthropic/", "claude", "-2", ".1">>
      [] name = "claude-2.0" -> <<"claude", "-2", ".0">>
      [] name = "claude-3-5-sonnet-20241022" -> <<"claude", "-3", "-5", "-sonnet", "-20241022">>
      [] name = "Claude-Opus-4" -> <<"claude", "-opus", "-4">>
      [] name = "" -> <<>>
      [] OTHER -> <<name>>

NoPricing == [none |-> TRUE]

\* PRICING_TABLE is an object literal: a property it does not own is looked up
\* in Object.prototype, whose members are functions or objects, all truthy
ObjectPrototype ==
    {"constructor", "toString", "toLocaleString", "valueOf", "hasOwnProperty",
     "isPrototypeOf", "propertyIsEnumerable", "__proto__"}

Inherited(name) == [inherited |-> name]

\* getModelPricing(model): `if (PRICING_TABLE[model]) return PRICING_TABLE[model]`,
\* then the first entry of Object.entries whose key model.toLowerCase() includes
getModelPricing(model) ==
    LET exact == {i \in 1..Len(PRICING_TABLE) : PRICING_TABLE[i][1] = model}
        partial == {i \in 1..Len(PRICING_TABLE) :
                       Includes(NameParts(model), NameParts(PRICING_TABLE[i][1]))}
        First(S) == CHOOSE i \in S : \A j \in S : i <= j
    IN  IF exact # {} THEN PRICING_TABLE[First(exact)][2]
        ELSE IF model \in ObjectPrototype THEN Inherited(model)
        ELSE IF partial # {} THEN PRICING_TABLE[First(partial)][2]
        ELSE NoPricing

\* the result of arithmetic on undefined
NaN == [nan |-> TRUE]

\* calculateCost(model, promptTokens, completionTokens)
calculateCost(model, promptTokens, completionTokens) ==
    LET pricing == getModelPricing(model) IN
    IF ~IsSet(pricing) THEN 0
    ELSE IF "inherited" \in DOMAIN pricing THEN NaN
    ELSE promptTokens * pricing.promptPricePerToken
         + completionTokens * pricing.completionPricePerToken

(***************************************************************************)
(* JavaScript numbers.  A number is an IEEE-754 double: zero, or m * 2^e   *)
(* with a significand m of MantissaBits bits, kept as a sequence of bits,  *)
(* the least significant first.  Arithmetic is done on naturals of any     *)
(* size, kept as sequences of limbs of 10 bits, the least significant      *)
(* first; every operation is the exact result rounded to the nearest       *)
(* double, ties to even.                                                   *)
(***************************************************************************)
MantissaBits == 53
LimbBase == 2 ^ 10

RECURSIVE Trim(_)
Trim(a) ==
    IF a = <<>> THEN <<>>
    ELSE IF a[Len(a)] = 0 THEN Trim(SubSeq(a, 1, Len(a) - 1)) ELSE a

Zeros(n) == [i \in 1..n |-> 0]

\* the value of a short sequence of bits
RECURSIVE FromBits(_)
FromBits(b) == IF b = <<>> THEN 0 ELSE b[1] + 2 * FromBits(Tail(b))

\* bit i of a natural, its number of bits, its bits
BitAt(a, i) ==
    IF (i - 1) \div 10 + 1 > Len(a) THEN 0
    ELSE (a[(i - 1) \div 10 + 1] \div 2 ^ ((i - 1) % 10)) % 2

BitLength(a) ==
    IF Trim(a) = <<>> THEN 0
    ELSE 10 * (Len(Trim(a)) - 1)
         + CHOOSE k \in 1..10 : /\ 2 ^ (k - 1) <= a[Len(Trim(a))]
                                /\ a[Len(Trim(a))] < 2 ^ k

BitsOf(a) == [i \in 1..BitLength(a) |-> BitAt(a, i)]

\* the natural with the bits b
LimbsOf(b) ==
    Trim([j \in 1..((Len(b) + 9) \div 10) |->
             FromBits(SubSeq(b, 10 * (j - 1) + 1,
                             IF 10 * j < Len(b) THEN 10 * j ELSE Len(b)))])

\* a * k + carry, for k and carry below 2^20
RECURSIVE MulSmall(_, _, _)
MulSmall(a, k, carry) ==
    IF a = <<>> THEN (IF carry = 0 THEN <<>>
                      ELSE <<carry % LimbBase>> \o MulSmall(<<>>, k, carry \div LimbBase))
    ELSE <<(a[1] * k + carry) % LimbBase>>
             \o MulSmall(Tail(a), k, (a[1] * k + carry) \div LimbBase)

\* a + b + carry
RECURSIVE AddBig(_, _, _)
AddBig(a, b, carry) ==
    IF a = <<>> THEN MulSmall(b, 1, carry)
    ELSE IF b = <<>> THEN MulSmall(a, 1, carry)
    ELSE <<(a[1] + b[1] + carry) % LimbBase>>
             \o AddBig(Tail(a), Tail(b), (a[1] + b[1] + carry) \div LimbBase)

\* quotient and remainder of a by d, for d below 2^20
RECURSIVE DivSmall(_, _)
DivSmall(a, d) ==
    IF a = <<>> THEN [q |-> <<>>, r |-> 0]
    ELSE CHOOSE res \in {[q |-> <<(LimbBase * hi.r + a[1]) \div d>> \o hi.q,
                          r |-> (LimbBase * hi.r + a[1]) % d] :
                            hi \in {DivSmall(Tail(a), d)}} : TRUE

FloatZero == [m |-> <<>>, e |-> 0]

\* the double nearest to n * 2^e for the bits n of a natural, or to a value
\* strictly between n * 2^e and (n + 1) * 2^e when sticky (n then has more than
\* MantissaBits + 1 bits)
RoundBits(n, sticky, e) ==
    IF n = <<>> THEN FloatZero
    ELSE IF Len(n) <= MantissaBits
    THEN [m |-> Zeros(MantissaBits - Len(n)) \o n, e |-> e - (MantissaBits - Len(n))]
    ELSE LET s == Len(n) - MantissaBits
             kept == SubSeq(n, s + 1, Len(n))
             rest == sticky \/ \E i \in 1..(s - 1) : n[i] = 1
             up == n[s] = 1 /\ (rest \/ kept[1] = 1)
             m == IF up THEN BitsOf(MulSmall(LimbsOf(kept), 1, 1)) ELSE kept
         IN  IF Len(m) > MantissaBits
             THEN [m |-> SubSeq(m, 2, Len(m)), e |-> e + s + 1]
             ELSE [m |-> m, e |-> e + s]

\* a natural number below 2^31 as a number
FloatOf(n) == RoundBits(BitsOf(MulSmall(<<>>, 1, n)), FALSE, 0)

\* x / d for a natural number d, 0 < d < 2^20: the quotient is computed with 60
\* bits more than x has
FloatDiv(x, d) ==
    IF x.m = <<>> THEN FloatZero
    ELSE CHOOSE res \in {RoundBits(BitsOf(qr.q), qr.r # 0, x.e - 60) :
                             qr \in {DivSmall(Zeros(6) \o LimbsOf(x.m), d)}} : TRUE

\* k * x for a natural number k below 2^20
FloatMul(k, x) == RoundBits(BitsOf(MulSmall(LimbsOf(x.m), k, 0)), FALSE, x.e)

\* x + y
FloatAdd(x, y) ==
    IF x.m = <<>> THEN y
    ELSE IF y.m = <<>> THEN x
    ELSE LET e == IF x.e < y.e THEN x.e ELSE y.e IN
         RoundBits(BitsOf(AddBig(LimbsOf(Zeros(x.e - e) \o x.m),
                                 LimbsOf(Zeros(y.e - e) \o y.m), 0)), FALSE, e)

\* the decimal literal num / 10^digits, digits at most 6
Decimal(num, digits) == FloatDiv(FloatOf(num), 10 ^ digits)

\* x.toFixed(digits) for 0 <= x < 1, as the natural number n that is printed
\* over 10^digits: the n nearest to x * 10^digits, the larger of two
ToFixed(x, digits) ==
    IF x = NaN THEN NaN
    ELSE IF x.m = <<>> THEN 0
    ELSE LET scaled == IF digits <= 5 THEN MulSmall(LimbsOf(x.m), 10 ^ digits, 0)
                       ELSE MulSmall(MulSmall(LimbsOf(x.m), 10 ^ 5, 0),
                                     10 ^ (digits - 5), 0)
             half == LimbsOf(Zeros(-x.e - 1) \o <<1>>)
             bits == BitsOf(AddBig(scaled, half, 0))
         IN  FromBits(SubSeq(bits, 1 - x.e, Len(bits)))

\* a price of the table as the source writes it, `x / 1000` for the decimal
\* literal x, from the price in units of 10^-8 USD
FloatPrice(units) == FloatDiv(Decimal(units, 5), 1000)

\* a calculateCost that leaves out the completion tokens
calculateCostNumber_PromptOnly(model, promptTokens, completionTokens) ==
    IF IsSet(getModelPricing(model)) /\ "inherited" \notin DOMAIN getModelPricing(model)
    THEN FloatMul(promptTokens, FloatPrice(getModelPricing(model).promptPricePerToken))
    ELSE FloatZero

\* calculateCost(model, promptTokens, completionTokens) in the numbers of the
\* program: promptTokens * pricing.promptPricePerToken
\*            + completionTokens * pricing.completionPricePerToken
calculateCostNumber(model, promptTokens, completionTokens) ==
    LET pricing == getModelPricing(model) IN
    IF ~IsSet(pricing) THEN FloatZero
    ELSE IF "inherited" \in DOMAIN pricing THEN NaN
    ELSE FloatAdd(FloatMul(promptTokens, FloatPrice(pricing.promptPricePerToken)),
                  FloatMul(completionTokens, FloatPrice(pricing.completionPricePerToken)))

\* getCostBreakdown(model, promptTokens, completionTokens); breakdown holds the
\* numbers its string is made of
getCostBreakdown(model, promptTokens, completionTokens) ==
    LET totalCost == calculateCostNumber(model, promptTokens, completionTokens)
        promptCost == calculateCostNumber(model, promptTokens, 0)
        completionCost == calculateCostNumber(model, 0, completionTokens)
    IN  [totalCost |-> totalCost, promptCost |-> promptCost,
         completionCost |-> completionCost,
         breakdown |-> <<ToFixed(promptCost, 6), promptTokens,
                         ToFixed(completionCost, 6), completionTokens,
                         ToFixed(totalCost, 6)>>]

(***************************************************************************)
(* services/costCalculator: detectAIResponse                               *)
(***************************************************************************)
JUndefined == <<"undef">>

\* v.k for a property read that does not throw (v is neither null nor undefined)
Prop(v, k) == IF HasKey(v, k) THEN GetField(v, k) ELSE JUndefined

\* JavaScript truthiness
Truthy(v) ==
    CASE Tag(v) = "null" -> FALSE
      [] Tag(v) = "undef" -> FALSE
      [] Tag(v) = "s" -> v[2] # ""
      [] Tag(v) = "n" -> v[2] # 0
      [] Tag(v) = "b" -> v[2]
      [] OTHER -> TRUE

\* typeof v === 'object'
TypeofObject(v) == Tag(v) \in {"o", "a", "null"}

\* usage.field || 0
TokensOr0(usage, field) ==
    IF Truthy(Prop(usage, field)) THEN Prop(usage, field)[2] ELSE 0

NotAI == [isAIResponse |-> FALSE, model |-> JNull, usage |-> NoRec, costUsd |-> 0]

\* the answer of the catch block of detectAIResponse
FailedToParse ==
    [isAIResponse |-> FALSE, model |-> JNull, usage |-> NoRec, costUsd |-> 0,
     error |-> "Failed to parse AI response"]

\* calculateCost(model, ...) throws for a truthy model that is no string: it
\* is no key of the table and has no toLowerCase (a number, a boolean, an
\* object; an array can name a key and is not drawn)
CalculateCostThrows(model) == Tag(model) # "s"

\* a detectAIResponse without the Anthropic pattern
detectAIResponse_OpenAIOnly(responseBody) ==
    IF ~Truthy(responseBody) \/ ~TypeofObject(responseBody) THEN NotAI
    ELSE IF ~(Truthy(Prop(responseBody, "usage")) /\ Truthy(Prop(responseBody, "model")))
    THEN NotAI
    ELSE IF CalculateCostThrows(Prop(responseBody, "model")) THEN FailedToParse
    ELSE [isAIResponse |-> TRUE, model |-> Prop(responseBody, "model"),
          usage |-> [promptTokens |-> TokensOr0(Prop(responseBody, "usage"), "prompt_tokens"),
                     completionTokens |->
                         TokensOr0(Prop(responseBody, "usage"), "completion_tokens"),
                     totalTokens |-> TokensOr0(Prop(responseBody, "usage"), "total_tokens")],
          costUsd |-> calculateCost(Prop(responseBody, "model")[2],
                                    TokensOr0(Prop(responseBody, "usage"), "prompt_tokens"),
                                    TokensOr0(Prop(responseBody, "usage"),
                                              "completion_tokens"))]

detectAIResponse(responseBody) ==
    IF ~Truthy(responseBody) \/ ~TypeofObject(responseBody) THEN NotAI
    ELSE LET usage == Prop(responseBody, "usage")
             model == Prop(responseBody, "model")
         IN
         IF Truthy(usage) /\ Truthy(model) /\ CalculateCostThrows(model) THEN FailedToParse
         ELSE IF Truthy(usage) /\ Truthy(model) /\ Prop(responseBody, "type") = JS("message")
         THEN LET p == TokensOr0(usage, "input_tokens")
                  c == TokensOr0(usage, "output_tokens")
              IN [isAIResponse |-> TRUE, model |-> model,
                  usage |-> [promptTokens |-> p, completionTokens |-> c,
                             totalTokens |-> p + c],
                  costUsd |-> calculateCost(model[2], p, c)]
         ELSE IF Truthy(usage) /\ Truthy(model)
         THEN LET p == TokensOr0(usage, "prompt_tokens")
                  c == TokensOr0(usage, "completion_tokens")
              IN [isAIResponse |-> TRUE, model |-> model,
                  usage |-> [promptTokens |-> p, completionTokens |-> c,
                             totalTokens |-> TokensOr0(usage, "total_tokens")],
                  costUsd |-> calculateCost(model[2], p, c)]
         ELSE NotAI

(***************************************************************************)
(* services/cacheService: shouldCacheResponse                              *)
(***************************************************************************)
MaxCacheBytes == 102400            \* maxSizeBytes = 1024 * 100

\* the large string of the model, longer than the ceiling by itself
HugeText == "<<more than 100KB of text>>"

\* str.length
StrLen(str) == IF str = HugeText THEN MaxCacheBytes + 1 ELSE 4

RECURSIVE SumLen(_, _)
RECURSIVE TextLength(_)
SumLen(texts, i) ==
    CHOOSE n \in {IF i > Len(ts) THEN 0 ELSE TextLength(ts[i]) + SumLen(ts, i + 1) :
                     ts \in {texts}} : TRUE

\* JSON.stringify(v).length: quotes, brackets, colons and commas counted
TextLength(text) ==
    CHOOSE n \in
        {CASE Tag(t) = "ts" -> StrLen(t[2]) + 2
           [] Tag(t) = "tn" -> 1
           [] Tag(t) = "tb" -> 4
           [] Tag(t) = "tnull" -> 4
           [] Tag(t) = "ta" -> 2 + SumLen(t[2], 1) + Max(0, Len(t[2]) - 1)
           [] Tag(t) = "to" ->
                  2 + SumLen([i \in 1..Len(t[2]) |-> <<"ts", t[2][i][1]>>], 1)
                    + SumLen([i \in 1..Len(t[2]) |-> t[2][i][2]], 1)
                    + Len(t[2]) + Max(0, Len(t[2]) - 1) :
         t \in {text}} : TRUE

\* shouldCacheResponse throws: `responseBody.stream` read on null
ShouldCacheThrows(statusCode, responseBody) ==
    /\ statusCode < 400
    /\ TextLength(Stringify(responseBody)) <= MaxCacheBytes
    /\ Tag(responseBody) = "null"

\* a shouldCacheResponse without the check of the status
shouldCacheResponse_IgnoresStatus(statusCode, responseBody) ==
    IF TextLength(Stringify(responseBody)) > MaxCacheBytes THEN FALSE
    ELSE IF Prop(responseBody, "stream") = JB(TRUE) THEN FALSE
    ELSE TRUE

\* shouldCacheResponse(statusCode, responseBody), when it returns
shouldCacheResponse(statusCode, responseBody) ==
    IF statusCode >= 400 THEN FALSE
    ELSE IF TextLength(Stringify(responseBody)) > MaxCacheBytes THEN FALSE
    ELSE IF Prop(responseBody, "stream") = JB(TRUE) THEN FALSE
    ELSE TRUE

(***************************************************************************)
(* Upstream responses                                                      *)
(***************************************************************************)
ChatCompletion ==
    JO(<< <<"id", JS("chatcmpl-1")>>,
          <<"model", JS("gpt-4")>>,
          <<"usage", JO(<< <<"prompt_tokens", JN(20)>>,
                           <<"completion_tokens", JN(50)>>,
                           <<"total_tokens", JN(70)>> >>)>> >>)

\* the same usage billed at the prices of gpt-3.5-turbo
ChatCompletionTurbo ==
    JO(<< <<"id", JS("chatcmpl-3")>>,
          <<"model", JS("gpt-3.5-turbo")>>,
          <<"usage", JO(<< <<"prompt_tokens", JN(20)>>,
                           <<"completion_tokens", JN(50)>>,
                           <<"total_tokens", JN(70)>> >>)>> >>)

RespChat == [statusCode |-> 200, body |-> ChatCompletion]

\* a completion of a model the pricing table does not know
ChatCompletionUnknown ==
    JO(<< <<"id", JS("chatcmpl-4")>>,
          <<"model", JS("my-model")>>,
          <<"usage", JO(<< <<"prompt_tokens", JN(20)>>,
                           <<"completion_tokens", JN(50)>>,
                           <<"total_tokens", JN(70)>> >>)>> >>)
RespChatUnknown == [statusCode |-> 200, body |-> ChatCompletionUnknown]
RespChatTurbo == [statusCode |-> 200, body |-> ChatCompletionTurbo]
RespText == [statusCode |-> 200, body |-> JS("pong")]
RespNull == [statusCode |-> 200, body |-> JNull]
RespStream ==
    [statusCode |-> 200,
     body |-> JO(<< <<"id", JS("chatcmpl-2")>>, <<"stream", JB(TRUE)>> >>)]
RespHuge == [statusCode |-> 200, body |-> JS(HugeText)]
RespUpstreamError ==
    [statusCode |-> 500, body |-> JO(<< <<"error", JS("server_error")>> >>)]

\* the catch block of forwardRequest
BadGateway(backend) ==
    [statusCode |-> 502,
     body |-> JO(<< <<"error", JS("Bad Gateway")>>, <<"message", JS(backend)>> >>)]

InternalError == JO(<< <<"error", JS("Internal Server Error")>> >>)
Unauthorized(message) ==
    JO(<< <<"error", JS("Unauthorized")>>, <<"message", JS(message)>> >>)

(***************************************************************************)
(* Scenarios.  A scenario bounds what the clients send and what the        *)
(* environment answers: the requests that arrive, their headers, paths and *)
(* bodies, the upstream responses, and the external calls that may fail.   *)
(***************************************************************************)
MaxFaults == 1        \* external calls that fail in one behaviour

FaultPoints == {"findByKey", "incr", "expire", "cache_get", "fetch", "budget_get",
                "budget_set", "status_get", "insert", "cache_set"}

\* the outcomes of an external call at fault point fp: TRUE = it succeeds
Outcomes(sc, fp) ==
    IF fp \in sc.faults /\ faults < sc.maxFaults THEN {TRUE, FALSE} ELSE {TRUE}

Fault(ok) == faults' = IF ok THEN faults ELSE faults + 1

SetReq(r, q) == req' = [req EXCEPT ![r] = q]

(***************************************************************************)
(* A request arrives; authenticate runs up to `await ApiKey.findByKey`.    *)
(* Requests arrive in the order of their numbers.                          *)
(***************************************************************************)
Arrive(r, sc) ==
    /\ r \in sc.reqs
    /\ req[r].pc = "idle"
    /\ IF r = 1 THEN TRUE ELSE req[r - 1].pc # "idle"
    /\ \E h \in sc.hdrs, p \in sc.paths, b \in sc.bodies :
          LET q == With(IdleReq, [hdr |-> h, path |-> p, body |-> b,
                                  after |-> {s \in AllReqs : req[s].pc = "done"}]) IN
          SetReq(r, IF h = NoHeader
                    THEN Send(q, 401, Unauthorized("Missing X-API-Key header"))
                    ELSE With(q, [pc |-> "auth"]))
    /\ UNCHANGED <<now, counters, cacheStore, budgetStore, requests, incrs, cacheLog, args, result,
                   faults>>

(***************************************************************************)
(* authenticate after findByKey: 401, 500 (the query threw) or next(),     *)
(* which is rateLimiter up to `await incrementCounter`.                    *)
(***************************************************************************)
\* an authenticate that sends the 401 and, its `return` missing, goes on to next()
AuthContinue_NoReturn(q, row, t) ==
    IF ~IsSet(row)
    THEN With(RateLimiterEnter(With(q, [apiKey |-> row, authNext |-> q.authNext + 1]), t),
              [statusCode |-> 401, resBody |-> Unauthorized("Invalid API key"),
               sent |-> q.sent + 1])
    ELSE RateLimiterEnter(With(q, [apiKey |-> row, authNext |-> q.authNext + 1]), t)

AuthContinue(q, row, t) ==
    IF ~IsSet(row) THEN Send(q, 401, Unauthorized("Invalid API key"))
    ELSE IF ~row.isActive THEN Send(q, 401, Unauthorized("API key has been deactivated"))
    ELSE RateLimiterEnter(With(q, [apiKey |-> row, authNext |-> q.authNext + 1]), t)

AuthLookup(r, sc) ==
    /\ req[r].pc = "auth"
    /\ \E ok \in Outcomes(sc, "findByKey") :
          /\ Fault(ok)
          /\ SetReq(r, IF ok THEN AuthContinue(req[r], findByKey(req[r].hdr), now)
                       ELSE Send(With(req[r], [authFailed |-> TRUE]), 500, InternalError))
    /\ UNCHANGED <<now, counters, cacheStore, budgetStore, requests, incrs, cacheLog, args, result>>

(***************************************************************************)
(* rateLimiter: INCR, then EXPIRE when the count is 1, then the decision   *)
(***************************************************************************)
Bump(h, k) == [x \in DOMAIN h \cup {k} |-> IF x = k
                                           THEN (IF k \in DOMAIN h THEN h[k] + 1 ELSE 1)
                                           ELSE h[x]]

RlIncr(r, sc) ==
    /\ req[r].pc = "rl_incr"
    /\ \E ok \in Outcomes(sc, "incr") :
          /\ Fault(ok)
          /\ IF ok
             THEN LET k == req[r].rlKey
                      after == RedisIncr(counters, k)
                      q == With(req[r], [count |-> after[k].val, rlAt |-> now,
                                         ordinal |-> Bump(incrs, k)[k],
                                         fx |-> req[r].fx \cup {"rl_incr"}])
                  IN /\ counters' = after
                     /\ incrs' = Bump(incrs, k)
                     /\ SetReq(r, IF q.count = 1 THEN With(q, [pc |-> "rl_expire"])
                                  ELSE RateLimiterDecide(q))
             ELSE /\ SetReq(r, RateLimiterCatch(req[r]))
                  /\ UNCHANGED <<counters, incrs>>
    /\ UNCHANGED <<now, cacheStore, budgetStore, requests, cacheLog, args, result>>

RlExpire(r, sc) ==
    /\ req[r].pc = "rl_expire"
    /\ \E ok \in Outcomes(sc, "expire") :
          /\ Fault(ok)
          /\ counters' = IF ok
                         THEN RedisExpire(counters, req[r].rlKey, RateWindowSeconds, now)
                         ELSE counters
    /\ SetReq(r, RateLimiterDecide(req[r]))
    /\ UNCHANGED <<now, cacheStore, budgetStore, requests, incrs, cacheLog, args, result>>

(***************************************************************************)
(* The proxy handler, step 2: the cache lookup answers                     *)
(***************************************************************************)
\* what a request hands to collectMetrics
UsageRecord(r, q, statusCode, costUsd, tokensUsed, model, cached) ==
    [r |-> r, userId |-> q.apiKey.userId, apiKeyId |-> q.apiKey.id, endpoint |-> q.path,
     statusCode |-> statusCode, costUsd |-> costUsd, tokensUsed |-> tokensUsed,
     model |-> model, cached |-> cached]

\* an insert that replaces the row of the same user and endpoint, if any
InsertRow_Upsert(rows, row) ==
    IF \E i \in DOMAIN rows : rows[i].userId = row.userId /\ rows[i].endpoint = row.endpoint
    THEN [i \in DOMAIN rows |->
             IF rows[i].userId = row.userId /\ rows[i].endpoint = row.endpoint THEN row
             ELSE rows[i]]
    ELSE Append(rows, row)

\* storeRequestMetrics: INSERT INTO requests (...) VALUES (...)
InsertRow(rows, row) == Append(rows, row)

\* a getCachedResponse that never reports a hit
IsCacheHit_Never(cached) == FALSE

\* getCachedResponse: `if (cached)`
IsCacheHit(cached) == cached # None

\* getCachedResponse after getCache: {hit: true, data: JSON.parse(cached)} or
\* {hit: false, data: null}
CacheResult(cached) ==
    IF IsCacheHit(cached) THEN [hit |-> TRUE, data |-> JsonParse(cached)]
    ELSE [hit |-> FALSE, data |-> JNull]

\* a handler that notes the hit but forwards the request all the same
CacheGetContinue_NoShortCircuit(q, cached, lookup) ==
    LET h == With(q, [fx |-> q.fx \cup {"cache_get"}, lookup |-> lookup]) IN
    IF CacheResult(cached).hit
    THEN With(h, [hit |-> CacheResult(cached).data, pc |-> "forward"])
    ELSE With(h, [pc |-> "forward"])

\* the handler after getCachedResponse: a hit goes to collectMetrics and is
\* served from the cache, a miss goes on to forwardRequest.  `lookup` is history:
\* what the lookup was about.
CacheGetContinue(q, cached, lookup) ==
    LET h == With(q, [fx |-> q.fx \cup {"cache_get"}, lookup |-> lookup])
        cacheResult == CacheResult(cached) IN
    IF cacheResult.hit
    THEN \* `cacheResult.data.model` throws on null: the handler's catch
         IF Tag(cacheResult.data) = "null" THEN Send(h, 500, InternalError)
         ELSE With(h, [hit |-> cacheResult.data, pc |-> "hit_store"])
    ELSE With(h, [pc |-> "forward"])

\* history: the last successful store under key k, if any
NeverStored == [payload |-> None, at |-> NoTtl, ttlSeconds |-> 0, by |-> 0, statusCode |-> 0]
LastStore(k) == IF k \in DOMAIN cacheLog THEN cacheLog[k] ELSE NeverStored

CacheGet(r, sc) ==
    /\ req[r].pc = "cache_get"
    /\ \E ok \in Outcomes(sc, "cache_get") :
          /\ Fault(ok)
          /\ LET k == req[r].cacheKey
                 cached == IF ok THEN RedisGet(cacheStore, k) ELSE None
                 lookup == [ok |-> ok, at |-> now,
                            from |-> IF k \in DOMAIN cacheStore THEN cacheStore[k].from
                                     ELSE None,
                            last |-> LastStore(k)]
             IN  SetReq(r, CacheGetContinue(req[r], cached, lookup))
    /\ UNCHANGED <<now, counters, cacheStore, budgetStore, requests, incrs, cacheLog, args,
                   result>>

\* collectMetrics on a hit: storeRequestMetrics
HitStore(r, sc) ==
    /\ req[r].pc = "hit_store"
    /\ \E ok \in Outcomes(sc, "insert") :
          /\ Fault(ok)
          /\ LET q == req[r]
                 model == IF Truthy(Prop(q.hit, "model")) THEN Prop(q.hit, "model") ELSE JNull
             IN  /\ requests' = IF ok
                                THEN InsertRow(requests, UsageRecord(r, q, 200, 0, 0, model, TRUE))
                                ELSE requests
                 /\ SetReq(r, With(q, [pc |-> "hit_publish",
                                       fx |-> q.fx \cup (IF ok THEN {"usage"}
                                                          ELSE {"usage_failed"})]))
    /\ UNCHANGED <<now, counters, cacheStore, budgetStore, incrs, cacheLog, args, result>>

\* collectMetrics on a hit: publishMetricsUpdate, then the cached payload is sent
HitPublish(r) ==
    /\ req[r].pc = "hit_publish"
    /\ SetReq(r, Send(With(req[r], [xCache |-> "HIT", fx |-> req[r].fx \cup {"publish"}]),
                      200, req[r].hit))
    /\ UNCHANGED <<now, counters, cacheStore, budgetStore, requests, incrs, cacheLog, faults, args,
                   result>>

(***************************************************************************)
(* Steps 4 to 6: forwardRequest, detectAIResponse, trackBudget             *)
(***************************************************************************)
\* getBudgetKey(userId): `budget:${userId}:${YYYY-MM-DD}`
getBudgetKey(userId, t) == <<userId, Day(t)>>

\* newSpending.toString() and parseFloat
NumToString(n) == <<"numstr", n>>
parseFloat(str) == str[2]

\* a getCurrentSpending that always reports 0
SpendingOf_Zero(spending) == 0

\* getCurrentSpending after getCache: spending ? parseFloat(spending) : 0
SpendingOf(spending) == IF spending = None THEN 0 ELSE parseFloat(spending)

\* step 6: `if (costInfo.isAIResponse && costInfo.costUsd > 0)`
TracksBudget(costInfo) == costInfo.isAIResponse /\ costInfo.costUsd > 0

\* What forwardRequest meets: the provider credential of the configuration,
\* whether fetch resolves, whether the body of the response can be read, and
\* the response of the provider.  error names what fails, "" when nothing does.
ForwardErrors == {"credential", "network", "body"}

UpstreamOf(error, resp) ==
    [apiKey |-> IF error = "credential" THEN "" ELSE "sk-provider",
     fetch |-> IF error = "network" THEN "rejects" ELSE "resolves",
     body |-> IF error = "body" THEN "unreadable" ELSE "readable",
     resp |-> resp]

\* what fails first in the try block: prepareHeaders, fetch, response.json()
ForwardError(backend, upstream) ==
    IF prepareHeaders(backend, <<>>, upstream.apiKey).threw THEN "credential"
    ELSE IF upstream.fetch = "rejects" THEN "network"
    ELSE IF upstream.body = "unreadable" THEN "body"
    ELSE ""

\* a forwardRequest without its catch block
forwardRequest_Rethrow(backend, upstream) ==
    IF ForwardError(backend, upstream) = ""
    THEN [threw |-> FALSE, response |-> upstream.resp]
    ELSE [threw |-> TRUE, response |-> NoRec]

\* forwardRequest: the response of the provider, or the answer of its catch block
forwardRequest(backend, upstream) ==
    IF ForwardError(backend, upstream) = ""
    THEN [threw |-> FALSE, response |-> upstream.resp]
    ELSE [threw |-> FALSE, response |-> BadGateway(backend)]

\* the failures of forwarding a scenario allows
FailuresOf(sc) == IF "failures" \in DOMAIN sc THEN sc.failures ELSE {"network"}

Forward(r, sc) ==
    /\ req[r].pc = "forward"
    /\ \E ok \in Outcomes(sc, "fetch") :
          /\ Fault(ok)
          /\ \E upstream \in (IF ok THEN {UpstreamOf("", resp) : resp \in sc.resps}
                               ELSE {UpstreamOf(e, NoRec) : e \in FailuresOf(sc)}) :
                LET out == forwardRequest(req[r].backend, upstream)
                    failed == With(req[r], [fwdError |-> ForwardError(req[r].backend, upstream),
                                            fx |-> req[r].fx \cup {"forward_failed"}])
                IN  IF out.threw THEN SetReq(r, Send(failed, 500, InternalError))
                    ELSE
                LET resp == out.response
                    costInfo == detectAIResponse(resp.body)
                    q == With(IF ok THEN With(req[r], [fx |-> req[r].fx \cup {"forward"}])
                              ELSE failed,
                              [fwd |-> resp, costInfo |-> costInfo])
                IN  SetReq(r, IF TracksBudget(costInfo)
                              THEN With(q, [budgetKey |-> getBudgetKey(q.apiKey.userId, now),
                                            pc |-> "bud_read"])
                              ELSE With(q, [pc |-> "met_store"]))
    /\ UNCHANGED <<now, counters, cacheStore, budgetStore, requests, incrs, cacheLog, args, result>>

\* history: the number the ledger holds under key k, 0 when it holds none
Ledger(k) == IF k \in DOMAIN budgetStore THEN budgetStore[k].val[2] ELSE 0

\* an addToBudget that stores the cost in place of the new total
NewSpending_Overwrite(currentSpending, costUsd) == costUsd

\* addToBudget: `const newSpending = currentSpending + costUsd`
NewSpending(currentSpending, costUsd) == currentSpending + costUsd

\* addToBudget: getCurrentSpending answers, newSpending is computed
BudRead(r, sc) ==
    /\ req[r].pc = "bud_read"
    /\ \E ok \in Outcomes(sc, "budget_get") :
          /\ Fault(ok)
          /\ LET spending == IF ok THEN RedisGet(budgetStore, req[r].budgetKey) ELSE None IN
             SetReq(r, With(req[r], [newSpending |-> NewSpending(SpendingOf(spending),
                                                                 req[r].costInfo.costUsd),
                                     seenSpending |-> Ledger(req[r].budgetKey),
                                     readDuring |-> {s \in AllReqs \ {r} :
                                                        req[s].pc = "bud_write"},
                                     fx |-> req[r].fx \cup (IF ok THEN {"budget_get"}
                                                             ELSE {"budget_get_failed"}),
                                     pc |-> "bud_write"]))
    /\ UNCHANGED <<now, counters, cacheStore, budgetStore, requests, incrs, cacheLog, args, result>>

\* addToBudget: setCache(budgetKey, newSpending.toString(), 48h); then
\* checkBudgetStatus starts its own read, under the key of the current day
BudWrite(r, sc) ==
    /\ req[r].pc = "bud_write"
    /\ \E ok \in Outcomes(sc, "budget_set") :
          /\ Fault(ok)
          /\ budgetStore' = IF ok
                            THEN RedisSet(budgetStore, req[r].budgetKey,
                                          NumToString(req[r].newSpending),
                                          BudgetTtlSeconds, now)
                            ELSE budgetStore
          /\ SetReq(r, With(req[r], [budgetKey |-> getBudgetKey(req[r].apiKey.userId, now),
                                     prevSpending |-> Ledger(req[r].budgetKey),
                                     pc |-> "bud_status",
                                     fx |-> req[r].fx \cup (IF ok THEN {"budget_set"}
                                                             ELSE {"budget_set_failed"})]))
    /\ UNCHANGED <<now, counters, cacheStore, requests, incrs, cacheLog, args, result>>

\* a checkBudgetStatus that compares with `>`
isOverBudget_Strict(currentSpending, dailyBudgetLimit) == currentSpending > dailyBudgetLimit

\* checkBudgetStatus on the value read
isOverBudget(currentSpending, dailyBudgetLimit) == currentSpending >= dailyBudgetLimit
isNearLimit(currentSpending, dailyBudgetLimit) ==
    currentSpending * 100 >= 90 * dailyBudgetLimit

\* checkBudgetStatus once getCurrentSpending has answered; percentageUsed,
\* (currentSpending / dailyBudgetLimit) * 100, is kept as a fraction
checkBudgetStatus(currentSpending, dailyBudgetLimit) ==
    [currentSpending |-> currentSpending,
     budgetLimit |-> dailyBudgetLimit,
     remainingBudget |-> Max(0, dailyBudgetLimit - currentSpending),
     percentageUsed |-> <<currentSpending * 100, dailyBudgetLimit>>,
     isOverBudget |-> isOverBudget(currentSpending, dailyBudgetLimit),
     isNearLimit |-> isNearLimit(currentSpending, dailyBudgetLimit)]

\* trackBudget: the alert it sends, if any
AlertOf(currentSpending, dailyBudgetLimit) ==
    IF ~features_budgetAlerts THEN {}
    ELSE IF isOverBudget(currentSpending, dailyBudgetLimit) THEN {"alert_exceeded"}
    ELSE IF isNearLimit(currentSpending, dailyBudgetLimit) THEN {"alert_warning"}
    ELSE {}

BudStatus(r, sc) ==
    /\ req[r].pc = "bud_status"
    /\ \E ok \in Outcomes(sc, "status_get") :
          /\ Fault(ok)
          /\ LET spending == IF ok THEN RedisGet(budgetStore, req[r].budgetKey) ELSE None IN
             SetReq(r, With(req[r], [pc |-> "met_store",
                                     fx |-> req[r].fx
                                            \cup AlertOf(SpendingOf(spending),
                                                         req[r].apiKey.dailyBudgetUsd)]))
    /\ UNCHANGED <<now, counters, cacheStore, budgetStore, requests, incrs, cacheLog, args, result>>

(***************************************************************************)
(* Steps 7 to 10: collectMetrics, the cache write, the response            *)
(***************************************************************************)
\* a handler that withholds the answer from a user who was over the limit
Respond_BudgetGate(q) ==
    IF q.seenSpending >= q.apiKey.dailyBudgetUsd
    THEN Send(With(q, [xCache |-> "MISS"]), 429, JO(<< <<"error", JS("Budget exceeded")>> >>))
    ELSE Send(With(q, [xCache |-> "MISS"]), q.fwd.statusCode, q.fwd.body)

\* steps 9 and 10: headers, then res.status(statusCode).json(body)
Respond(q) == Send(With(q, [xCache |-> "MISS"]), q.fwd.statusCode, q.fwd.body)

\* a storeRequestMetrics that rethrows the error of the insert, as `query`
\* does: the handler's catch answers 500
StoreMetricsContinue_Rethrow(q, stored) ==
    IF stored THEN With(q, [pc |-> "met_publish", fx |-> q.fx \cup {"usage"}])
    ELSE Send(With(q, [fx |-> q.fx \cup {"usage_failed"}]), 500, InternalError)

\* collectMetrics after storeRequestMetrics: the insert's error is caught and
\* logged, publishMetricsUpdate follows either way
StoreMetricsContinue(q, stored) ==
    With(q, [pc |-> "met_publish",
             fx |-> q.fx \cup (IF stored THEN {"usage"} ELSE {"usage_failed"})])

MetStore(r, sc) ==
    /\ req[r].pc = "met_store"
    /\ \E ok \in Outcomes(sc, "insert") :
          /\ Fault(ok)
          /\ LET q == req[r]
                 tokens == IF IsSet(q.costInfo.usage) THEN q.costInfo.usage.totalTokens ELSE 0
             IN  /\ requests' = IF ok
                                THEN InsertRow(requests,
                                            UsageRecord(r, q, q.fwd.statusCode,
                                                        q.costInfo.costUsd, tokens,
                                                        q.costInfo.model, FALSE))
                                ELSE requests
                 /\ SetReq(r, StoreMetricsContinue(q, ok))
    /\ UNCHANGED <<now, counters, cacheStore, budgetStore, incrs, cacheLog, args, result>>

\* publishMetricsUpdate, then step 8 up to `await setCache`: shouldCacheResponse
\* may throw (the handler's catch answers 500), refuse or accept
MetPublish(r) ==
    /\ req[r].pc = "met_publish"
    /\ LET q == With(req[r], [fx |-> req[r].fx \cup {"publish"}]) IN
       SetReq(r, IF ShouldCacheThrows(q.fwd.statusCode, q.fwd.body)
                 THEN Send(q, 500, InternalError)
                 ELSE IF shouldCacheResponse(q.fwd.statusCode, q.fwd.body) /\ features_caching
                 THEN With(q, [cacheKey |-> generateCacheKey(q.path, q.body),
                               pc |-> "cache_set"])
                 ELSE Respond(q))
    /\ UNCHANGED <<now, counters, cacheStore, budgetStore, requests, incrs, cacheLog, faults, args,
                   result>>

\* setCachedResponse: `const ttl = ttlSeconds || config.features.cacheTTL`; an
\* omitted ttlSeconds is 0 here, which `||` treats alike
CacheTtl(ttlSeconds) == IF ttlSeconds # 0 THEN ttlSeconds ELSE features_cacheTTL

\* the entry setCachedResponse(endpoint, requestBody, responseData, ttlSeconds)
\* writes at time t: JSON.stringify(responseData) under setCache's expiration,
\* with the request that stored it as history
CacheEntry(endpoint, requestBody, responseData, ttlSeconds, t) ==
    [val |-> Stringify(responseData),
     exp |-> IF CacheTtl(ttlSeconds) # 0 THEN t + CacheTtl(ttlSeconds) ELSE NoTtl,
     from |-> <<endpoint, requestBody>>]

CacheSet(r, sc) ==
    /\ req[r].pc = "cache_set"
    /\ \E ok \in Outcomes(sc, "cache_set") :
          /\ Fault(ok)
          /\ cacheStore' = IF ok
                           THEN Put(cacheStore, req[r].cacheKey,
                                    CacheEntry(req[r].path, req[r].body, req[r].fwd.body, 0,
                                               now))
                           ELSE cacheStore
          /\ cacheLog' = IF ok
                         THEN Put(cacheLog, req[r].cacheKey,
                                  [payload |-> req[r].fwd.body, at |-> now, ttlSeconds |-> 0,
                                   by |-> r, statusCode |-> req[r].fwd.statusCode])
                         ELSE cacheLog
          /\ SetReq(r, Respond(With(req[r], [cacheSetAt |-> now,
                                              fx |-> req[r].fx
                                                     \cup (IF ok THEN {"cache_set"}
                                                           ELSE {"cache_set_failed"})])))
    /\ UNCHANGED <<now, counters, budgetStore, requests, incrs, args, result>>

(***************************************************************************)
(* Time passes; Redis drops the keys that expire                           *)
(***************************************************************************)
Tick ==
    /\ now + TickSeconds <= MaxTicks * TickSeconds
    /\ now' = now + TickSeconds
    /\ counters' = Purge(counters, now')
    /\ cacheStore' = Purge(cacheStore, now')
    /\ budgetStore' = Purge(budgetStore, now')
    /\ UNCHANGED <<req, requests, incrs, cacheLog, faults, args, result>>

(***************************************************************************)
(* Specifications                                                          *)
(***************************************************************************)
NoArgs == <<>>

InitPipeline ==
    /\ now = 0
    /\ req = [r \in AllReqs |-> IdleReq]
    /\ counters = EmptyStore
    /\ cacheStore = EmptyStore
    /\ budgetStore = EmptyStore
    /\ requests = <<>>
    /\ incrs = EmptyStore
    /\ cacheLog = EmptyStore
    /\ faults = 0

Init == InitPipeline /\ args = NoArgs /\ result = NoArgs

\* authenticate and rateLimiter
StepFront(r, sc) ==
    \/ Arrive(r, sc)
    \/ AuthLookup(r, sc)
    \/ RlIncr(r, sc)
    \/ RlExpire(r, sc)

\* the handler's cache lookup and the hit branch
StepHit(r, sc) ==
    \/ CacheGet(r, sc)
    \/ HitStore(r, sc)
    \/ HitPublish(r)

\* the miss branch but for trackBudget
StepMiss(r, sc) ==
    \/ Forward(r, sc)
    \/ MetStore(r, sc)
    \/ MetPublish(r)
    \/ CacheSet(r, sc)

\* trackBudget
StepBudget(r, sc) ==
    \/ BudRead(r, sc)
    \/ BudWrite(r, sc)
    \/ BudStatus(r, sc)

\* Spec: the whole pipeline within one clock tick.  Every kind of header, a
\* resolvable and an unresolvable path, every kind of upstream answer, and any
\* external call may fail.
Pipeline ==
    [reqs |-> 1..NumReqs,
     hdrs |-> AllHeaders,
     paths |-> {PathChat, PathUnknown},
     bodies |-> {BodyHello, BodyBye},
     resps |-> {RespChat, RespText, RespNull, RespUpstreamError},
     faults |-> FaultPoints,
     maxFaults |-> MaxFaults]

Next ==
    \E r \in AllReqs :
        StepFront(r, Pipeline) \/ StepHit(r, Pipeline) \/ StepMiss(r, Pipeline)
            \/ StepBudget(r, Pipeline)

Spec == Init /\ [][Next]_vars

\* SpecRate: authenticate and rateLimiter while time passes, up to the point
\* where rateLimiter has answered 429 or called next().  The requests come from
\* two keys of one user with quotas 1 and 2, on one endpoint; the counter store
\* may fail.
RateScenario ==
    [reqs |-> 1..NumRateReqs,
     hdrs |-> ValidHeaders,
     paths |-> {PathChat},
     bodies |-> {BodyHello},
     resps |-> {},
     faults |-> {"incr", "expire"},
     maxFaults |-> MaxFaults]

NextRate == (\E r \in AllReqs : StepFront(r, RateScenario)) \/ Tick

SpecRate == Init /\ [][NextRate]_vars

\* SpecWindow: authenticate and rateLimiter for requests of the key with quota
\* 1 on one endpoint, the counter store available, while time passes from the
\* start of one calendar minute to the second before the next, the second after
\* it, and the start of the minute after that.
WindowInstants == <<0, SecondsPerMinute - 1, SecondsPerMinute + 1, 2 * SecondsPerMinute>>

WindowScenario ==
    [reqs |-> 1..NumRateReqs,
     hdrs |-> {"gw_a"},
     paths |-> {PathChat},
     bodies |-> {BodyHello},
     resps |-> {},
     faults |-> {},
     maxFaults |-> 0]

TickWindow ==
    /\ \E i \in 1..(Len(WindowInstants) - 1) :
          now = WindowInstants[i] /\ now' = WindowInstants[i + 1]
    /\ counters' = Purge(counters, now')
    /\ cacheStore' = Purge(cacheStore, now')
    /\ budgetStore' = Purge(budgetStore, now')
    /\ UNCHANGED <<req, requests, incrs, cacheLog, faults, args, result>>

NextWindow == (\E r \in AllReqs : StepFront(r, WindowScenario)) \/ TickWindow

SpecWindow == Init /\ [][NextWindow]_vars

\* SpecMiss: the pipeline for one key and one request body, with upstream
\* answers of every kind (a completion with usage, text, null, an error status,
\* a streaming body, a body over the size ceiling), a failing transport and
\* failing bookkeeping calls, up to MaxMissFaults of them in one behaviour.
MissScenario ==
    [reqs |-> 1..NumReqs,
     hdrs |-> {"gw_b"},
     paths |-> {PathChat},
     bodies |-> {BodyHello},
     resps |-> {RespChat, RespText, RespNull, RespUpstreamError, RespStream, RespHuge},
     faults |-> {"cache_get", "fetch", "budget_get", "budget_set", "status_get", "insert",
                 "cache_set"},
     maxFaults |-> MaxMissFaults]

NextMiss ==
    \E r \in AllReqs :
        StepFront(r, MissScenario) \/ StepHit(r, MissScenario)
            \/ StepMiss(r, MissScenario) \/ StepBudget(r, MissScenario)

SpecMiss == Init /\ [][NextMiss]_vars

\* SpecForward: requests to both providers whose forwarding may fail in each of
\* its ways: no provider credential, fetch rejects, the body cannot be read.
ForwardScenario ==
    [reqs |-> 1..NumReqs,
     hdrs |-> {"gw_b"},
     paths |-> {PathChat, PathAnthropic},
     bodies |-> {BodyHello},
     resps |-> {RespChat, RespText},
     faults |-> {"fetch"},
     failures |-> ForwardErrors,
     maxFaults |-> MaxMissFaults]

NextForward ==
    \E r \in AllReqs :
        StepFront(r, ForwardScenario) \/ StepHit(r, ForwardScenario)
            \/ StepMiss(r, ForwardScenario) \/ StepBudget(r, ForwardScenario)

SpecForward == Init /\ [][NextForward]_vars

\* SpecUnknown: answers of a model the pricing table knows and of one it does
\* not; the insert of the usage record may fail.
UnknownScenario ==
    [reqs |-> 1..NumReqs,
     hdrs |-> {"gw_b"},
     paths |-> {PathChat},
     bodies |-> {BodyHello, BodyBye},
     resps |-> {RespChat, RespChatUnknown},
     faults |-> {"insert"},
     maxFaults |-> MaxFaults]

NextUnknown ==
    \E r \in AllReqs :
        StepFront(r, UnknownScenario) \/ StepHit(r, UnknownScenario)
            \/ StepMiss(r, UnknownScenario) \/ StepBudget(r, UnknownScenario)

SpecUnknown == Init /\ [][NextUnknown]_vars

\* SpecAlert: requests of users with a small daily budget: one answer of gpt-4
\* takes bob over his limit and carol to 90% of hers.
AlertScenario ==
    [reqs |-> 1..NumReqs,
     hdrs |-> {"gw_low", "gw_mid"},
     paths |-> {PathChat},
     bodies |-> {BodyHello, BodyTurbo},
     resps |-> {RespChat, RespChatTurbo},
     faults |-> {"fetch", "budget_set"},
     maxFaults |-> MaxFaults]

NextAlert ==
    \E r \in AllReqs :
        StepFront(r, AlertScenario) \/ StepHit(r, AlertScenario)
            \/ StepMiss(r, AlertScenario) \/ StepBudget(r, AlertScenario)

SpecAlert == Init /\ [][NextAlert]_vars

\* SpecBackend: detectBackend applied to every path of one to MaxSegments
\* segments
Segments == {"v1", "messages", "anthropic", "openai", "chat", "completions", "status"}

\* the path /s1/s2/.../sn
PathOfSegments(segs) ==
    [i \in 1..(2 * Len(segs)) |-> IF i % 2 = 1 THEN "/" ELSE segs[i \div 2]]

BackendPaths ==
    UNION {{PathOfSegments(segs) : segs \in [1..n -> Segments]} : n \in 1..MaxSegments}

InitBackend ==
    /\ InitPipeline
    /\ args \in [endpoint : BackendPaths]
    /\ result = NoArgs

CallDetectBackend ==
    /\ result = NoArgs
    /\ result' = [backend |-> detectBackend(args.endpoint)]
    /\ UNCHANGED <<now, req, counters, cacheStore, budgetStore, requests, incrs, cacheLog,
                   faults, args>>

SpecBackend == InitBackend /\ [][CallDetectBackend]_vars

\* SpecHeaders: prepareHeaders applied to the headers of a client: the gateway
\* key, headers of the forwarded kind (absent, empty or set) and others
ClientHeaderValues ==
    [n \in {"x-api-key", "user-agent", "accept", "accept-encoding", "authorization",
             "cookie"} |->
        CASE n = "x-api-key" -> {"gw_a", "gw_b"}
          [] n = "user-agent" -> {"", "curl/8"}
          [] n = "accept" -> {"*/*"}
          [] n = "accept-encoding" -> {"gzip"}
          [] n = "authorization" -> {"Bearer client-token"}
          [] n = "cookie" -> {"session=1"}]

ClientHeaders ==
    UNION {[names -> UNION {ClientHeaderValues[n] : n \in names}] :
              names \in SUBSET DOMAIN ClientHeaderValues}

\* the header sets a client can send: each header carries one of its values
OriginalHeaders ==
    {h \in ClientHeaders : \A n \in DOMAIN h : h[n] \in ClientHeaderValues[n]}

ProviderCredentials == {"", "sk-provider"}

InitHeaders ==
    /\ InitPipeline
    /\ args \in [backend : {"openai", "anthropic"}, headers : OriginalHeaders,
                  apiKey : ProviderCredentials]
    /\ result = NoArgs

CallPrepareHeaders ==
    /\ result = NoArgs
    /\ result' = prepareHeaders(args.backend, args.headers, args.apiKey)
    /\ UNCHANGED <<now, req, counters, cacheStore, budgetStore, requests, incrs, cacheLog,
                   faults, args>>

SpecHeaders == InitHeaders /\ [][CallPrepareHeaders]_vars

\* SpecPricing: the pricing functions applied to model names (keys of the
\* table, versioned and upper-case names, unknown names, names of members of
\* Object.prototype) and token counts
ModelNames ==
    {PRICING_TABLE[i][1] : i \in 1..Len(PRICING_TABLE)}
        \cup {"GPT-4", "GPT-4-TURBO", "GPT-4-0613", "gpt-4-turbo-2024-04-09",
              "gpt-3.5-turbo-16k-0613", "gpt-3.5", "anthropic/claude-2.1", "claude-2.0",
              "claude-3-5-sonnet-20241022", "Claude-Opus-4", "my-model", "",
              "constructor", "toString"}

TokenCounts == {0, 7, 20, 50}

InitPricing ==
    /\ InitPipeline
    /\ args \in [model : ModelNames, promptTokens : TokenCounts,
                  completionTokens : TokenCounts]
    /\ result = NoArgs

CallGetModelPricing ==
    /\ result = NoArgs
    /\ result' = [fn |-> "getModelPricing", value |-> getModelPricing(args.model)]
    /\ UNCHANGED <<now, req, counters, cacheStore, budgetStore, requests, incrs, cacheLog,
                   faults, args>>

CallCalculateCost ==
    /\ result = NoArgs
    /\ result' = [fn |-> "calculateCost",
                  value |-> calculateCostNumber(args.model, args.promptTokens,
                                                args.completionTokens)]
    /\ UNCHANGED <<now, req, counters, cacheStore, budgetStore, requests, incrs, cacheLog,
                   faults, args>>

CallGetCostBreakdown ==
    /\ result = NoArgs
    /\ result' = [fn |-> "getCostBreakdown",
                  value |-> getCostBreakdown(args.model, args.promptTokens,
                                             args.completionTokens)]
    /\ UNCHANGED <<now, req, counters, cacheStore, budgetStore, requests, incrs, cacheLog,
                   faults, args>>

NextPricing == CallGetModelPricing \/ CallCalculateCost \/ CallGetCostBreakdown

SpecPricing == InitPricing /\ [][NextPricing]_vars

\* SpecDetect: detectAIResponse applied to bodies that are no objects and to
\* objects with each combination of a type, a model and a usage member
DetectTypes == {JUndefined, JS("message"), JS("completion")}
DetectModels ==
    {JUndefined, JNull, JS(""), JS("gpt-3.5-turbo"), JS("claude-3-sonnet-20240229"),
     JS("my-model"), JN(5)}
DetectUsages ==
    {JUndefined, JNull, JB(TRUE), JO(<<>>),
     JO(<< <<"prompt_tokens", JN(100)>>, <<"completion_tokens", JN(50)>>,
           <<"total_tokens", JN(150)>> >>),
     JO(<< <<"input_tokens", JN(120)>>, <<"output_tokens", JN(80)>> >>),
     JO(<< <<"input_tokens", JN(0)>>, <<"output_tokens", JN(80)>>,
           <<"prompt_tokens", JN(7)>>, <<"total_tokens", JN(9)>> >>)}

\* the object with the members that are not undefined
ObjectOf(pairs) ==
    JO(FilterSeq(pairs, {pr \in SeqToSet(pairs) : pr[2] # JUndefined}))

DetectBodies ==
    {JUndefined, JNull, JS("not an object"), JS(""), JN(0), JN(7), JB(TRUE), JA(<<>>)}
        \cup {ObjectOf(<< <<"type", t>>, <<"model", m>>, <<"usage", u>> >>) :
                  t \in DetectTypes, m \in DetectModels, u \in DetectUsages}

InitDetect ==
    /\ InitPipeline
    /\ args \in [responseBody : DetectBodies]
    /\ result = NoArgs

CallDetectAIResponse ==
    /\ result = NoArgs
    /\ result' = detectAIResponse(args.responseBody)
    /\ UNCHANGED <<now, req, counters, cacheStore, budgetStore, requests, incrs, cacheLog,
                   faults, args>>

SpecDetect == InitDetect /\ [][CallDetectAIResponse]_vars

\* SpecStatus: checkBudgetStatus applied to a spending and a positive limit
StatusLimits == {20, 100}

InitStatus ==
    /\ InitPipeline
    /\ args \in [spending : 0..MaxSpend, limit : StatusLimits]
    /\ result = NoArgs

CallCheckBudgetStatus ==
    /\ result = NoArgs
    /\ result' = checkBudgetStatus(args.spending, args.limit)
    /\ UNCHANGED <<now, req, counters, cacheStore, budgetStore, requests, incrs, cacheLog,
                   faults, args>>

SpecStatus == InitStatus /\ [][CallCheckBudgetStatus]_vars

\* SpecBudget: requests of one user on one day whose answers carry a cost, a
\* dear one and a cheap one, so that their trackBudget calls overlap; the read
\* or the write of the ledger may fail.
BudgetScenario ==
    [reqs |-> 1..NumReqs,
     hdrs |-> {"gw_b"},
     paths |-> {PathChat},
     bodies |-> {BodyHello, BodyTurbo},
     resps |-> {RespChat, RespChatTurbo},
     faults |-> {"budget_get", "budget_set"},
     maxFaults |-> MaxFaults]

NextBudget ==
    \E r \in AllReqs :
        StepFront(r, BudgetScenario) \/ StepHit(r, BudgetScenario)
            \/ StepMiss(r, BudgetScenario) \/ StepBudget(r, BudgetScenario)

SpecBudget == Init /\ [][NextBudget]_vars

\* SpecLive: the pipeline under the assumption that every external call a
\* request awaits returns or fails: the handler of a request that has arrived
\* is not suspended forever.
LiveScenario ==
    [reqs |-> 1..NumReqs,
     hdrs |-> AllHeaders,
     paths |-> {PathChat, PathUnknown},
     bodies |-> {BodyHello},
     resps |-> {RespChat, RespNull, RespUpstreamError},
     faults |-> FaultPoints,
     maxFaults |-> MaxFaults]

\* the continuations of request r once it has arrived
Resume(r) ==
    \/ AuthLookup(r, LiveScenario) \/ RlIncr(r, LiveScenario) \/ RlExpire(r, LiveScenario)
    \/ StepHit(r, LiveScenario) \/ StepMiss(r, LiveScenario) \/ StepBudget(r, LiveScenario)

NextLive == \E r \in AllReqs : Arrive(r, LiveScenario) \/ Resume(r)

SpecLive == Init /\ [][NextLive]_vars /\ \A r \in 1..NumReqs : WF_vars(Resume(r))

\* SpecRepeat: the pipeline with the cache while time passes and entries expire,
\* as in the integration test that repeats a request.  One key, one endpoint,
\* two bodies, an upstream answer that is cached and one that is not; the cache
\* store may fail.
RepeatScenario ==
    [reqs |-> 1..NumReqs,
     hdrs |-> {"gw_b"},
     paths |-> {PathChat},
     bodies |-> {BodyHello, BodyTurbo},
     resps |-> {RespText, RespUpstreamError},
     faults |-> {"cache_get", "cache_set"},
     maxFaults |-> MaxFaults]

NextRepeat ==
    \/ \E r \in AllReqs :
          StepFront(r, RepeatScenario) \/ StepHit(r, RepeatScenario)
              \/ StepMiss(r, RepeatScenario)
    \/ Tick

SpecRepeat == Init /\ [][NextRepeat]_vars

\* SpecCache: the cache service called as in test-part4.ts, while time passes
\* and entries expire.  setCachedResponse and getCachedResponse are called in
\* any order for one endpoint and two bodies, with payloads of every JSON kind
\* and with or without a ttlSeconds of one tick; the cache store may fail.
CacheBodies == {BodyHello, BodyTurbo}
CachePayloads == {ChatCompletion, JS("pong"), JNull}
CacheTtlArgs == {0, TickSeconds}

\* await setCachedResponse(endpoint, requestBody, responseData, ttlSeconds)
CallSetCachedResponse ==
    \E b \in CacheBodies, payload \in CachePayloads, ttl \in CacheTtlArgs :
    \E ok \in (IF faults < MaxFaults THEN {TRUE, FALSE} ELSE {TRUE}) :
        LET k == generateCacheKey(PathChat, b) IN
        /\ features_caching
        /\ Fault(ok)
        /\ cacheStore' = IF ok
                         THEN Put(cacheStore, k, CacheEntry(PathChat, b, payload, ttl, now))
                         ELSE cacheStore
        /\ cacheLog' = IF ok
                       THEN Put(cacheLog, k,
                                [payload |-> payload, at |-> now, ttlSeconds |-> ttl,
                                 by |-> 0, statusCode |-> 200])
                       ELSE cacheLog
        /\ result' = [op |-> "set", success |-> ok]
        /\ UNCHANGED <<now, req, counters, budgetStore, requests, incrs, args>>

\* await getCachedResponse(endpoint, requestBody); `lookup` is history
CallGetCachedResponse ==
    \E b \in CacheBodies :
    \E ok \in (IF faults < MaxFaults THEN {TRUE, FALSE} ELSE {TRUE}) :
        LET k == generateCacheKey(PathChat, b)
            cached == IF ok THEN RedisGet(cacheStore, k) ELSE None
        IN
        /\ features_caching
        /\ Fault(ok)
        /\ result' = [op |-> "get", cacheResult |-> CacheResult(cached),
                      lookup |-> [ok |-> ok, at |-> now, last |-> LastStore(k)]]
        /\ UNCHANGED <<now, req, counters, cacheStore, budgetStore, requests, incrs, cacheLog,
                       args>>

NextCache == CallSetCachedResponse \/ CallGetCachedResponse \/ Tick

SpecCache == Init /\ [][NextCache]_vars

(***************************************************************************)
(* SpecKey: generateCacheKey as a function.  The inputs are an endpoint    *)
(* and two request bodies drawn from bodies that differ in the order of    *)
(* their keys (top level and nested), in a top-level value and in a nested *)
(* value.                                                                  *)
(***************************************************************************)
MessageIn(order, content) ==
    IF order = 1 THEN JO(<< <<"role", JS("user")>>, <<"content", JS(content)>> >>)
    ELSE JO(<< <<"content", JS(content)>>, <<"role", JS("user")>> >>)

ChatBody(order, model, msgOrder, content) ==
    IF order = 1
    THEN JO(<< <<"model", JS(model)>>,
               <<"messages", JA(<<MessageIn(msgOrder, content)>>)>> >>)
    ELSE JO(<< <<"messages", JA(<<MessageIn(msgOrder, content)>>)>>,
               <<"model", JS(model)>> >>)

\* the bodies of tests/cacheService.test.ts
FlatBody(order) ==
    IF order = 1
    THEN JO(<< <<"model", JS("gpt-3.5-turbo")>>, <<"temperature", JN(2)>> >>)
    ELSE JO(<< <<"temperature", JN(2)>>, <<"model", JS("gpt-3.5-turbo")>> >>)

KeyBodies ==
    {ChatBody(o, m, mo, c) : o \in 1..2, m \in {"gpt-4", "gpt-3.5-turbo"},
                             mo \in 1..2, c \in {"Hello", "Bye"}}
        \cup {FlatBody(o) : o \in 1..2}

KeyPaths == {PathChat, PathChatUnderscore, PathMessages}

InitKey ==
    /\ InitPipeline
    /\ args \in [endpoint : KeyPaths, b1 : KeyBodies, b2 : KeyBodies]
    /\ result = NoArgs

ComputeKeys ==
    /\ result = NoArgs
    /\ result' = [k1 |-> generateCacheKey(args.endpoint, args.b1),
                  k2 |-> generateCacheKey(args.endpoint, args.b2)]
    /\ UNCHANGED <<now, req, counters, cacheStore, budgetStore, requests, incrs, cacheLog,
                   faults, args>>

SpecKey == InitKey /\ [][ComputeKeys]_vars

\* two JavaScript values with the same content: equal but for the order of the
\* keys of their objects, at any depth
RECURSIVE SameContent(_, _)
SameContent(a, b) ==
    IF Tag(a) # Tag(b) THEN FALSE
    ELSE IF Tag(a) = "o"
    THEN /\ SeqToSet(ObjectKeys(a)) = SeqToSet(ObjectKeys(b))
         /\ Len(a[2]) = Len(b[2])
         /\ \A k \in SeqToSet(ObjectKeys(a)) : SameContent(GetField(a, k), GetField(b, k))
    ELSE IF Tag(a) = "a"
    THEN /\ Len(a[2]) = Len(b[2])
         /\ \A i \in 1..Len(a[2]) : SameContent(a[2][i], b[2][i])
    ELSE a = b

KeysComputed == result # NoArgs

(***************************************************************************)
(* Properties of rateLimiter (SpecRate)                                    *)
(***************************************************************************)
\* the request's INCR succeeded and rateLimiter has decided on it
RateDecided(q) == q.ordinal > 0 /\ q.pc # "rl_expire"

\* the request's rate-limit check (key and increment) happened within the
\* calendar minute of its key
InBucket(q) == q.ordinal > 0 /\ Minute(q.rlAt) = q.rlKey[3]

\* the bucket of the claims: user, endpoint, calendar minute
BucketOf(q) == <<q.apiKey.userId, q.path, Minute(q.rlAt)>>

Admitted(q) == q.rlNext = 1 /\ q.statusCode # 429

TooManyRequests(limit) ==
    JO(<< <<"error", JS("Too Many Requests")>>, <<"retryAfter", JN(60)>>,
          <<"limit", JN(limit)>>, <<"remaining", JN(0)>> >>)

Denied(q, limit) ==
    /\ q.rlNext = 0
    /\ q.pc = "done"
    /\ q.sent = 1
    /\ q.statusCode = 429
    /\ q.resBody = TooManyRequests(limit)

\* C1: of the requests by one user to one endpoint whose rate-limit check falls
\* in one calendar minute (their increments succeeding), the n-th is admitted
\* (rateLimiter calls next) when n is at most the quota N of its API key, and is
\* denied with status 429 and the body {retryAfter: 60, limit: N, remaining: 0}
\* when n is N + 1 or more.
C1_QuotaAdmission ==
    \A r \in AllReqs :
        LET q == req[r]
            N == RateLimitOf(q.apiKey) IN
        (RateDecided(q) /\ InBucket(q)) =>
            IF q.ordinal <= N THEN Admitted(q) ELSE Denied(q, N)

\* the N-th request of a bucket admitted and the (N+1)-th denied, N = 2
C1_Witness ==
    \E r1, r2 \in AllReqs :
        /\ req[r1].hdr = "gw_b" /\ req[r2].hdr = "gw_b"
        /\ RateDecided(req[r1]) /\ InBucket(req[r1])
        /\ RateDecided(req[r2]) /\ InBucket(req[r2])
        /\ BucketOf(req[r1]) = BucketOf(req[r2])
        /\ req[r1].ordinal = 2 /\ Admitted(req[r1])
        /\ req[r2].ordinal = 3 /\ Denied(req[r2], 2)

\* the quotas of the API keys
Quotas == {RateLimitOf(row) : row \in ApiKeyRows}

\* the requests counted in the bucket of request r
BucketMates(r) ==
    {s \in AllReqs : InBucket(req[s]) /\ BucketOf(req[s]) = BucketOf(req[r])}

\* C2: under every interleaving of the rateLimiter invocations of one user on
\* one endpoint within one calendar minute (the increments succeeding), the
\* invocations observe pairwise distinct counts, and of those made with a quota
\* of N at most N are admitted.
C2_DistinctCountsAtMostQuota ==
    \A r \in AllReqs :
        InBucket(req[r]) =>
            /\ \A s \in BucketMates(r) : s # r => req[s].count # req[r].count
            /\ \A N \in Quotas :
                  Cardinality({s \in BucketMates(r) :
                                  RateLimitOf(req[s].apiKey) = N /\ req[s].rlNext >= 1}) <= N

\* three invocations of one bucket overlap (the one that arrived later
\* increments first); two are admitted and one is denied
C2_Witness ==
    \E r1, r2, r3 \in AllReqs :
        /\ r1 < r2 /\ r3 \notin {r1, r2}
        /\ \A s \in {r1, r2, r3} :
              req[s].hdr = "gw_b" /\ RateDecided(req[s]) /\ InBucket(req[s])
        /\ BucketMates(r1) = {r1, r2, r3}
        /\ req[r2].ordinal < req[r1].ordinal
        /\ Cardinality({s \in {r1, r2, r3} : Admitted(req[s])}) = 2
        /\ Cardinality({s \in {r1, r2, r3} : req[s].statusCode = 429}) = 1

(***************************************************************************)
(* Properties of the pipeline (Spec)                                       *)
(***************************************************************************)
\* the usage records appended for request r
RecordsOf(r) == {i \in DOMAIN requests : requests[i].r = r}

\* the request arrived without a header, or with a key that findByKey does not
\* return (an unknown or an inactive key)
Unauthenticated(q) == q.pc # "idle" /\ ~IsSet(findByKey(q.hdr))

\* nothing but authenticate has run for request r
NothingDownstream(r) ==
    LET q == req[r] IN
    /\ q.authNext = 0 /\ q.rlNext = 0
    /\ q.fx = {}
    /\ q.rlKey = None /\ q.cacheKey = None /\ q.budgetKey = None
    /\ ~IsSet(q.fwd)
    /\ RecordsOf(r) = {}

\* when every request that has arrived is unauthenticated, no store has changed
StoresUntouched ==
    (\A r \in AllReqs : req[r].pc = "idle" \/ Unauthenticated(req[r])) =>
        /\ counters = EmptyStore /\ incrs = EmptyStore
        /\ cacheStore = EmptyStore /\ budgetStore = EmptyStore
        /\ requests = <<>>

\* C3, as stated: a request without a header, with an unknown key or with an
\* inactive key always ends with status 401, and nothing downstream of
\* authenticate runs for it.
C3_Always401 ==
    \A r \in AllReqs :
        Unauthenticated(req[r]) =>
            /\ NothingDownstream(r)
            /\ req[r].pc = "done" => req[r].statusCode = 401

\* C3, amended: such a request ends with status 401, or with status 500 when
\* the key lookup itself throws (a request without a header is never looked up
\* and always ends with 401); in both cases authenticate never calls next, no
\* counter is incremented, no cache lookup or write and no upstream call
\* happens, the budget ledger is unchanged and no usage record is appended.
C3_Rejected401Or500 ==
    /\ StoresUntouched
    /\ \A r \in AllReqs :
          LET q == req[r] IN
          Unauthenticated(q) =>
              /\ NothingDownstream(r)
              /\ q.hdr = NoHeader => ~q.authFailed
              /\ q.pc = "done" =>
                    /\ q.sent = 1
                    /\ q.statusCode = IF q.authFailed THEN 500 ELSE 401

\* a request with an inactive key answered 401 and one with an unknown key
\* answered 500, its lookup having thrown
C3_Witness ==
    \E r1, r2 \in AllReqs :
        /\ req[r1].hdr = "gw_old" /\ req[r1].pc = "done" /\ req[r1].statusCode = 401
        /\ req[r2].hdr = "gw_unknown" /\ req[r2].pc = "done" /\ req[r2].statusCode = 500
        /\ req[r2].authFailed

\* C4: a request denied by the rate limiter (429) runs no downstream stage: but
\* for the counter increment, no provider resolution, cache lookup, upstream
\* call, budget update, usage record or cache write happens for it.
C4_DeniedRunsNothing ==
    \A r \in AllReqs :
        LET q == req[r] IN
        q.statusCode = 429 =>
            /\ q.pc = "done" /\ q.sent = 1
            /\ q.rlNext = 0
            /\ q.fx = {"rl_incr"}
            /\ q.backend = "null" /\ q.cacheKey = None /\ q.budgetKey = None
            /\ ~IsSet(q.lookup) /\ ~IsSet(q.fwd) /\ ~IsSet(q.costInfo)
            /\ RecordsOf(r) = {}

\* a request was denied and every request has run to its end
C4_Witness ==
    /\ \E r \in 1..NumReqs : req[r].statusCode = 429 /\ req[r].ordinal = 2
    /\ \A r \in 1..NumReqs : req[r].pc = "done"

\* C5: when incrementCounter throws, rateLimiter fails open: it calls next
\* exactly once, sends no 429, and the handler runs as for an allowed request
\* (the provider is resolved; a resolvable path goes on to the cache lookup).
C5_FailOpen ==
    \A r \in AllReqs :
        LET q == req[r] IN
        "rl_error" \in q.fx =>
            /\ q.rlNext = 1
            /\ q.statusCode # 429
            /\ q.count = 0 /\ "rl_incr" \notin q.fx
            /\ "detect" \in q.fx
            /\ IF q.path = PathUnknown
               THEN q.pc = "done" /\ q.statusCode = 400
               ELSE q.backend = "openai" /\ (q.pc = "cache_get" \/ "cache_get" \in q.fx)

\* a request whose increment threw was forwarded and answered 200
C5_Witness ==
    \E r \in AllReqs :
        /\ "rl_error" \in req[r].fx /\ "forward" \in req[r].fx
        /\ req[r].pc = "done" /\ req[r].statusCode = 200 /\ req[r].xCache = "MISS"

\* C6: an authenticated, admitted request whose path has no provider is answered
\* 400 before any cache lookup or upstream call; it adds nothing to the budget
\* ledger, writes no cache entry and has no usage record.  This holds for every
\* such request, whatever runs concurrently.
C6_Unresolved400 ==
    \A r \in AllReqs :
        LET q == req[r] IN
        (q.path = PathUnknown /\ q.authNext = 1 /\ q.rlNext >= 1) =>
            /\ q.pc = "done" /\ q.sent = 1
            /\ q.statusCode = 400
            /\ q.fx \subseteq {"rl_incr", "rl_error", "detect"}
            /\ q.cacheKey = None /\ q.budgetKey = None
            /\ ~IsSet(q.lookup) /\ ~IsSet(q.fwd)
            /\ RecordsOf(r) = {}

\* two such requests overlap (the one that arrived later increments first) and
\* both are answered 400
C6_Witness ==
    /\ \A r \in 1..2 : /\ req[r].path = PathUnknown /\ req[r].pc = "done"
                       /\ req[r].statusCode = 400 /\ req[r].rlNext = 1
    /\ req[1].rlKey = req[2].rlKey
    /\ req[2].ordinal = 1 /\ req[1].ordinal = 2
    /\ cacheStore = EmptyStore /\ budgetStore = EmptyStore /\ requests = <<>>

C8_HitOnlyOnSameRequest ==
    \A r \in AllReqs :
        LET q == req[r] IN
        q.hit # None =>
            /\ q.lookup.from[1] = q.path
            /\ SameContent(q.lookup.from[2], q.body)

(***************************************************************************)
(* Properties of generateCacheKey (SpecKey)                                *)
(***************************************************************************)
\* C9: for every endpoint and every two request bodies with the same key/value
\* pairs that differ only in the order of their keys, generateCacheKey gives
\* the same key.
C9_KeyOrderInvariant ==
    (KeysComputed /\ SameContent(args.b1, args.b2)) => result.k1 = result.k2

\* two bodies that differ in the order of their keys, at the top level and in a
\* message, got the same key
C9_Witness ==
    /\ KeysComputed
    /\ args.b1 = ChatBody(1, "gpt-4", 1, "Hello")
    /\ args.b2 = ChatBody(2, "gpt-4", 2, "Hello")
    /\ result.k1 = result.k2

(***************************************************************************)
(* Properties of the cache round trip (SpecCache)                          *)
(***************************************************************************)
GetReturned == result # NoArgs /\ result.op = "get"

\* the lookup came after a successful store under its key
StoredBefore == result.lookup.last.at # NoTtl

\* ... and before that entry expired
Fresh ==
    LET last == result.lookup.last
        ttl == IF last.ttlSeconds # 0 THEN last.ttlSeconds ELSE features_cacheTTL
    IN  result.lookup.at < last.at + ttl

IsHitWith(payload) == result.cacheResult.hit /\ result.cacheResult.data = payload

IsMiss == ~result.cacheResult.hit /\ result.cacheResult.data = JNull

\* C10, as stated: after a successful setCachedResponse and until the entry
\* expires (or is replaced by a later store, which then is the one that
\* counts), getCachedResponse returns a hit with the stored payload; before any
\* store under the key it returns a miss.
C10_RoundTrip ==
    GetReturned =>
        IF StoredBefore
        THEN Fresh => IsHitWith(result.lookup.last.payload)
        ELSE IsMiss

\* C10, amended: the same, provided the store read of the lookup succeeds; a
\* lookup whose read fails is reported as a miss.
C10_RoundTripWhenReadSucceeds ==
    GetReturned =>
        IF ~result.lookup.ok THEN IsMiss
        ELSE IF StoredBefore
        THEN Fresh => IsHitWith(result.lookup.last.payload)
        ELSE IsMiss

\* a lookup half a minute after the store of an object, under the default TTL,
\* returned the stored payload
C10_Witness ==
    /\ GetReturned /\ result.lookup.ok
    /\ StoredBefore /\ Fresh
    /\ result.lookup.last.ttlSeconds = 0
    /\ result.lookup.at > result.lookup.last.at
    /\ IsHitWith(ChatCompletion)

(***************************************************************************)
(* Properties of a repeated request (SpecRepeat)                           *)
(***************************************************************************)
\* request r missed the cache, was forwarded, got a cacheable response and was
\* answered with X-Cache: MISS
MissedAndCacheable(r) ==
    LET q == req[r] IN
    /\ q.pc = "done" /\ q.xCache = "MISS" /\ "forward" \in q.fx
    /\ q.statusCode < 400 /\ q.cacheSetAt # NoTtl

\* request r2 is the same request as r1, arrived after r1 was answered, and its
\* cache lookup came before the entry of r1 would expire
RepeatedInTime(r1, r2) ==
    /\ r1 \in req[r2].after
    /\ req[r2].path = req[r1].path /\ req[r2].body = req[r1].body
    /\ IsSet(req[r2].lookup)
    /\ req[r2].lookup.at < req[r1].cacheSetAt + features_cacheTTL

AnsweredFromCacheOf(r1, r2) ==
    LET q == req[r2] IN
    /\ {"forward", "forward_failed"} \cap q.fx = {}
    /\ q.hit = req[r1].resBody
    /\ q.pc = "done" =>
          /\ q.statusCode = 200 /\ q.xCache = "HIT"
          /\ q.resBody = req[r1].resBody

\* C11, as stated: after a request that missed, was forwarded and got a
\* cacheable response, every later request with the same endpoint and body
\* made before the TTL expires is answered 200 with X-Cache: HIT and the same
\* body, and makes no upstream call.
C11_RepeatIsHit ==
    \A r1, r2 \in AllReqs :
        (MissedAndCacheable(r1) /\ RepeatedInTime(r1, r2)) => AnsweredFromCacheOf(r1, r2)

\* C11, amended: the same, provided the first request's cache write succeeded,
\* the later request's store read succeeds and no other response was stored
\* under the key in between.
C11_RepeatIsHitWhenStored ==
    \A r1, r2 \in AllReqs :
        ( /\ MissedAndCacheable(r1) /\ RepeatedInTime(r1, r2)
          /\ "cache_set" \in req[r1].fx
          /\ req[r2].lookup.ok
          /\ req[r2].lookup.last.by = r1 ) => AnsweredFromCacheOf(r1, r2)

\* a request repeated half a minute later was answered from the cache
C11_Witness ==
    /\ MissedAndCacheable(1) /\ RepeatedInTime(1, 2)
    /\ req[2].lookup.at > req[1].cacheSetAt
    /\ req[2].pc = "done" /\ req[2].xCache = "HIT" /\ req[2].statusCode = 200
    /\ req[2].resBody = req[1].resBody /\ "forward" \notin req[2].fx

(***************************************************************************)
(* Properties of the miss branch (SpecMiss)                                *)
(***************************************************************************)
\* request r has touched neither the budget ledger nor the cache store
NoBudgetNoCacheWrite(r) ==
    LET q == req[r] IN
    /\ {"budget_get", "budget_get_failed", "budget_set", "budget_set_failed",
        "cache_set", "cache_set_failed"} \cap q.fx = {}
    /\ q.budgetKey = None /\ q.cacheSetAt = NoTtl
    /\ \A k \in DOMAIN cacheLog : cacheLog[k].by # r

\* the one usage record of a request whose forwarding failed
IsFailureRecord(i) ==
    /\ requests[i].statusCode = 502 /\ requests[i].costUsd = 0
    /\ requests[i].tokensUsed = 0 /\ ~requests[i].cached

\* C12, as stated: when forwarding fails at the transport level the client
\* receives 502, exactly one usage record is appended for the request, with
\* status 502 and cost 0, the budget ledger is unchanged and no cache entry is
\* written.
C12_TransportFailure ==
    \A r \in AllReqs :
        LET q == req[r] IN
        "forward_failed" \in q.fx =>
            /\ NoBudgetNoCacheWrite(r)
            /\ \A i \in RecordsOf(r) : IsFailureRecord(i)
            /\ q.pc = "done" =>
                  /\ q.statusCode = 502 /\ q.sent = 1
                  /\ Cardinality(RecordsOf(r)) = 1

\* C12, amended: the same, the usage record being appended when the insert
\* succeeds; when the insert fails the request has no usage record.
C12_TransportFailureRecordedIfSinkUp ==
    \A r \in AllReqs :
        LET q == req[r] IN
        "forward_failed" \in q.fx =>
            /\ NoBudgetNoCacheWrite(r)
            /\ \A i \in RecordsOf(r) : IsFailureRecord(i)
            /\ q.pc = "done" =>
                  /\ q.statusCode = 502 /\ q.sent = 1
                  /\ q.resBody = BadGateway(q.backend).body
                  /\ Cardinality(RecordsOf(r)) = IF "usage_failed" \in q.fx THEN 0 ELSE 1

\* a request whose forwarding failed was answered 502 and recorded once
C12_Witness ==
    \E r \in AllReqs :
        /\ "forward_failed" \in req[r].fx /\ req[r].pc = "done"
        /\ req[r].statusCode = 502
        /\ Cardinality(RecordsOf(r)) = 1
        /\ budgetStore = EmptyStore /\ cacheStore = EmptyStore

\* request r missed the cache and its forwardRequest call has returned
Forwarded(r) == {"forward", "forward_failed"} \cap req[r].fx # {}

\* C13, as stated: on a miss no failure inside a bookkeeping stage (budget
\* tracking, metrics recording, the cacheability check, cache population)
\* changes what the client sees: for every upstream response, of any status and
\* any JSON body, the client receives the forwarded status and body, never a
\* 500 caused by bookkeeping.
C13_BookkeepingNeverChangesOutcome ==
    \A r \in AllReqs :
        (Forwarded(r) /\ req[r].pc = "done") =>
            /\ req[r].statusCode = req[r].fwd.statusCode
            /\ req[r].resBody = req[r].fwd.body

\* the budget update of request r failed: the read or the write of the ledger
BudgetUpdateFailed(r) == {"budget_get_failed", "budget_set_failed"} \cap req[r].fx # {}

\* request r, answered, wrote the forwarded response to the cache, unless the
\* write itself failed
CacheWritten(r) ==
    IF "cache_set_failed" \in req[r].fx THEN \A k \in DOMAIN cacheLog : cacheLog[k].by # r
    ELSE /\ "cache_set" \in req[r].fx
         /\ generateCacheKey(req[r].path, req[r].body) \in DOMAIN cacheStore

\* C14: the best-effort stages of a miss are independent.  A failing budget
\* update prevents neither the usage record nor the cache write; a failing
\* metrics insert prevents neither the live-update publish nor the cache write
\* (here for the cacheable answers: the completion, the text).
C14_StagesIndependent ==
    \A r \in AllReqs :
        LET q == req[r] IN
        (Forwarded(r) /\ q.pc = "done") =>
            /\ BudgetUpdateFailed(r) =>
                  /\ Cardinality(RecordsOf(r)) = IF "usage_failed" \in q.fx THEN 0 ELSE 1
                  /\ q.fwd \in {RespChat, RespText} => CacheWritten(r)
                  /\ q.statusCode = q.fwd.statusCode
            /\ "usage_failed" \in q.fx =>
                  /\ "publish" \in q.fx
                  /\ q.fwd \in {RespChat, RespText} => CacheWritten(r)

\* a request whose budget write and metrics insert both failed was published
\* and cached all the same
C14_Witness ==
    \E r \in AllReqs :
        /\ req[r].pc = "done" /\ req[r].statusCode = 200
        /\ {"budget_set_failed", "usage_failed", "publish", "cache_set"} \subseteq req[r].fx
        /\ RecordsOf(r) = {} /\ cacheStore # EmptyStore /\ budgetStore = EmptyStore

(***************************************************************************)
(* Usage records                                                           *)
(***************************************************************************)
\* an answered request that was served from the cache or forwarded has one usage
\* record unless its insert failed; a request rejected before the cache lookup
\* has none
OneRecordPerServed ==
    \A r \in AllReqs :
        LET q == req[r] IN
        /\ Cardinality(RecordsOf(r)) <= 1
        /\ q.pc = "done" =>
              IF q.xCache = "HIT" \/ Forwarded(r)
              THEN Cardinality(RecordsOf(r)) = IF "usage_failed" \in q.fx THEN 0 ELSE 1
              ELSE /\ q.statusCode \in {401, 429, 400, 500}
                   /\ RecordsOf(r) = {}

\* a step of the pipeline keeps every usage record and at most appends one
AppendOnly ==
    /\ Len(requests') \in {Len(requests), Len(requests) + 1}
    /\ SubSeq(requests', 1, Len(requests)) = requests

\* C15: every request that completes as a cache hit or as a forwarded miss (for
\* any upstream status, 502 included) appends exactly one usage record when the
\* insert succeeds; the 401, 429 and 400 rejections append none; no step of the
\* pipeline updates or deletes a usage record.
C15_UsageRecords == []OneRecordPerServed /\ [][AppendOnly]_vars

\* a forwarded miss and then a hit, both answered: one record each, the first
\* one unchanged by the second
C15_Witness ==
    \E h, m \in AllReqs :
        /\ req[h].pc = "done" /\ req[m].pc = "done"
        /\ req[m].xCache = "MISS" /\ RecordsOf(m) = {1} /\ ~requests[1].cached
        /\ req[h].xCache = "HIT" /\ RecordsOf(h) = {2} /\ requests[2].cached
        /\ Len(requests) = 2

(***************************************************************************)
(* Terminal states (SpecLive)                                              *)
(***************************************************************************)
\* Rejected: answered 401, 429 or 400 by the gateway, no upstream call made
Rejected(r) ==
    /\ req[r].statusCode \in {401, 429, 400}
    /\ ~Forwarded(r) /\ req[r].xCache = ""

\* Failed: answered 502 (the upstream was not reached) or 500
Failed(r) == req[r].statusCode >= 500

\* Served: answered below 500 from the cache or with the upstream's answer
Served(r) ==
    /\ req[r].statusCode < 500
    /\ \/ req[r].xCache = "HIT" /\ ~Forwarded(r)
       \/ req[r].xCache = "MISS" /\ "forward" \in req[r].fx

\* a request has sent nothing before it is answered and one response when it is,
\* and an answered request is in exactly one terminal state
OneResponse ==
    \A r \in AllReqs :
        /\ req[r].sent = IF req[r].pc = "done" THEN 1 ELSE 0
        /\ req[r].pc = "done" =>
              Cardinality({t \in {"Served", "Rejected", "Failed"} :
                              \/ t = "Served" /\ Served(r)
                              \/ t = "Rejected" /\ Rejected(r)
                              \/ t = "Failed" /\ Failed(r)}) = 1

\* every request that has arrived is answered.  No request leaves "done", and
\* finitely many arrive: each request that arrives is answered if and only if
\* this holds from some point on.
AllAnswered == \A r \in AllReqs : req[r].pc \in {"idle", "done"}

\* C16: every inbound request, provided each external call it makes returns or
\* fails, reaches exactly one terminal state among Served, Rejected and Failed
\* and sends exactly one response: none is answered twice, none is left
\* without a response.
C16_OneTerminalState == []OneResponse /\ <>[]AllAnswered

\* two answered requests, one Served and one Failed, one response each
C16_Witness ==
    \E r, s \in AllReqs :
        /\ req[r].pc = "done" /\ Served(r) /\ req[r].sent = 1
        /\ req[s].pc = "done" /\ Failed(s) /\ req[s].sent = 1

(***************************************************************************)
(* The response of a miss (SpecMiss)                                       *)
(***************************************************************************)
\* C17, as stated: on a cache miss the client receives the status and the body
\* that forwardRequest returned; the pipeline adds headers (X-Cache: MISS, the
\* rate-limit headers) and alters neither the body nor the status.
C17_MissPassesThrough ==
    \A r \in AllReqs :
        LET q == req[r] IN
        (q.pc = "done" /\ IsSet(q.fwd)) =>
            /\ q.xCache = "MISS" /\ q.limit = q.apiKey.rateLimitPerMinute
            /\ <<q.statusCode, q.resBody>> = <<q.fwd.statusCode, q.fwd.body>>

(***************************************************************************)
(* The cacheability policy (SpecMiss)                                      *)
(***************************************************************************)
\* the policy as documented: cacheable unless the status is an error, the body
\* is flagged as streaming or its serialization is over the ceiling
CacheablePerPolicy(statusCode, responseBody) ==
    /\ statusCode < 400
    /\ ~(HasKey(responseBody, "stream") /\ GetField(responseBody, "stream") = JB(TRUE))
    /\ TextLength(Stringify(responseBody)) <= MaxCacheBytes

\* C18, as stated: shouldCacheResponse returns false when the status is >= 400,
\* the body has stream === true or the serialized body is over the ceiling, and
\* true otherwise (so that the handler goes on to setCachedResponse exactly for
\* the cacheable answers); every entry the pipeline writes to the cache holds a
\* response with a status below 400, not streaming and not over the ceiling.
C18_CachePolicy ==
    /\ \A r \in AllReqs :
          (req[r].pc = "done" /\ IsSet(req[r].fwd)) =>
              ({"cache_set", "cache_set_failed"} \cap req[r].fx # {}
                   <=> CacheablePerPolicy(req[r].fwd.statusCode, req[r].fwd.body))
    /\ \A k \in DOMAIN cacheLog :
          CacheablePerPolicy(cacheLog[k].statusCode, cacheLog[k].payload)

(***************************************************************************)
(* The budget ledger (SpecBudget)                                          *)
(***************************************************************************)
\* the requests whose addToBudget has written the ledger
Writers == {r \in AllReqs : "budget_set" \in req[r].fx}

\* no read and no write of the ledger has failed
LedgerAvailable ==
    \A r \in AllReqs : {"budget_get_failed", "budget_set_failed"} \cap req[r].fx = {}

\* the ledger of the user of the model today
TodaysTotal == Ledger(getBudgetKey("alice", now))

RECURSIVE SumOfCosts(_)
SumOfCosts(S) ==
    IF S = {} THEN 0
    ELSE LET r == CHOOSE x \in S : TRUE IN req[r].costInfo.costUsd + SumOfCosts(S \ {r})

\* C19, as stated: within one day, with the store available and non-negative
\* costs, every write of addToBudget stores a value greater than or equal to
\* the value stored just before it, under every interleaving of the requests
\* of the user.
C19_WritesNeverDecrease ==
    LedgerAvailable =>
        \A r \in Writers : req[r].newSpending >= req[r].prevSpending

\* the write of request r replaced a total that was not the one r had read
StaleWrite(r) == req[r].seenSpending # req[r].prevSpending

\* C20: with the store available, the ledger always holds the total that one
\* writer read plus the cost of that writer alone; it never exceeds the sum of
\* the costs written, and it differs from that sum only when some call wrote
\* over a total that had changed since it read it (the lost update).
C20_OnlyLostUpdates ==
    LedgerAvailable =>
        /\ \A r \in Writers : req[r].newSpending = req[r].seenSpending + req[r].costInfo.costUsd
        /\ Writers # {} =>
              \E r \in Writers : TodaysTotal = req[r].seenSpending + req[r].costInfo.costUsd
        /\ TodaysTotal <= SumOfCosts(Writers)
        /\ TodaysTotal # SumOfCosts(Writers) => \E r \in Writers : StaleWrite(r)

\* two overlapping calls read the same total, 0, and both wrote: the ledger holds
\* the cost of one of them, less than the sum
C20_Witness ==
    \E r, s \in Writers :
        /\ r # s /\ LedgerAvailable
        /\ req[r].seenSpending = 0 /\ req[s].seenSpending = 0
        /\ StaleWrite(s)
        /\ TodaysTotal = req[s].costInfo.costUsd
        /\ TodaysTotal < SumOfCosts(Writers)

\* no addToBudget call has read the ledger while another call was between its
\* read and its write
NoOverlap == \A r \in AllReqs : req[r].readDuring = {}

\* C21: when the addToBudget calls of one user on one day do not overlap and
\* the store is available, each call returns the previous total plus its cost,
\* and once the calls are over the ledger holds the sum of all the costs added.
C21_SequentialCallsAddUp ==
    (LedgerAvailable /\ NoOverlap) =>
        /\ \A r \in Writers :
              req[r].newSpending = req[r].prevSpending + req[r].costInfo.costUsd
        /\ (\A r \in AllReqs : req[r].pc # "bud_write") =>
              TodaysTotal = SumOfCosts(Writers)

\* two calls, one after the other, with different costs: the ledger holds the sum
C21_Witness ==
    /\ LedgerAvailable /\ NoOverlap
    /\ \E r, s \in Writers :
          /\ req[r].costInfo.costUsd # req[s].costInfo.costUsd
          /\ req[r].prevSpending = 0 /\ req[s].prevSpending = req[r].costInfo.costUsd
          /\ TodaysTotal = req[r].costInfo.costUsd + req[s].costInfo.costUsd

(***************************************************************************)
(* checkBudgetStatus (SpecStatus)                                          *)
(***************************************************************************)
\* C22: checkBudgetStatus reports isOverBudget exactly when the spending is at
\* or above the limit and isNearLimit exactly when spending / limit >= 0.90:
\* both at the limit, isNearLimit alone at 95%, neither at 50%; remainingBudget
\* is max(0, limit - spending).
C22_StatusClassification ==
    result # NoArgs =>
        LET spending == args.spending
            limit == args.limit IN
        /\ result.isOverBudget <=> spending >= limit
        /\ result.isNearLimit <=> 10 * spending >= 9 * limit
        /\ spending = limit => result.isOverBudget /\ result.isNearLimit
        /\ 100 * spending = 95 * limit => result.isNearLimit /\ ~result.isOverBudget
        /\ 2 * spending = limit => ~result.isNearLimit /\ ~result.isOverBudget
        /\ result.remainingBudget = IF limit - spending > 0 THEN limit - spending ELSE 0
        /\ result.currentSpending = spending /\ result.budgetLimit = limit

\* the status of a spending at 95% of the limit
C22_Witness ==
    /\ result # NoArgs /\ args = [spending |-> 95, limit |-> 100]
    /\ result.isNearLimit /\ ~result.isOverBudget /\ result.remainingBudget = 5

(***************************************************************************)
(* Budget alerts and the budget gate (SpecAlert)                           *)
(***************************************************************************)
\* trackBudget has returned for request r
Tracked(r) ==
    /\ {"budget_set", "budget_set_failed"} \cap req[r].fx # {}
    /\ req[r].pc # "bud_status"

\* C23, as stated: a tracked request emits an alert only when it newly crosses
\* the threshold: the spending read before its cost was added was below 90%
\* (warning) or 100% (exceeded) of the limit and the spending with its cost is
\* at or above it; a request tracked when the user is already past the
\* threshold emits none; no request emits more than one alert.
C23_AlertOnlyOnCrossing ==
    (LedgerAvailable /\ NoOverlap) =>
        \A r \in AllReqs :
            LET q == req[r]
                limit == q.apiKey.dailyBudgetUsd IN
            Tracked(r) =>
                /\ "alert_exceeded" \in q.fx =>
                      q.seenSpending < limit /\ q.newSpending >= limit
                /\ "alert_warning" \in q.fx =>
                      /\ 100 * q.seenSpending < 90 * limit
                      /\ 100 * q.newSpending >= 90 * limit
                /\ Cardinality({"alert_exceeded", "alert_warning"} \cap q.fx) <= 1

\* some request of the same user, answered before request r arrived, had taken
\* the ledger to the limit or above
OverBudgetBefore(r) ==
    \E s \in req[r].after :
        /\ req[s].hdr = req[r].hdr /\ "budget_set" \in req[s].fx
        /\ req[s].newSpending >= req[s].apiKey.dailyBudgetUsd

\* the cache lookup of request r was not a hit
Missed(r) == "cache_get" \in req[r].fx /\ req[r].hit = None

\* C24: the pipeline never gates on the budget.  A request of a user whose
\* spending is already at or above the limit is forwarded on a cache miss, the
\* upstream's answer is returned to the client, and its cost is added to the
\* ledger, after the forwarding.
C24_NoBudgetGate ==
    \A r \in AllReqs :
        LET q == req[r] IN
        /\ {"budget_get", "budget_set"} \cap q.fx # {} => Forwarded(r)
        /\ (OverBudgetBefore(r) /\ Missed(r) /\ q.pc = "done") =>
              /\ Forwarded(r)
              /\ q.statusCode = q.fwd.statusCode /\ q.resBody = q.fwd.body
              /\ (q.costInfo.costUsd > 0 /\ "budget_set_failed" \notin q.fx) =>
                    /\ "budget_set" \in q.fx
                    /\ q.newSpending = q.seenSpending + q.costInfo.costUsd

\* a request of bob, who was over his limit when it arrived, was forwarded,
\* answered 200 and billed
C24_Witness ==
    \E r \in AllReqs :
        /\ OverBudgetBefore(r) /\ Missed(r) /\ req[r].pc = "done"
        /\ "forward" \in req[r].fx /\ req[r].statusCode = 200
        /\ "budget_set" \in req[r].fx
        /\ req[r].seenSpending >= req[r].apiKey.dailyBudgetUsd
        /\ req[r].newSpending > req[r].seenSpending

(***************************************************************************)
(* detectBackend (SpecBackend)                                             *)
(***************************************************************************)
\* C25, as stated: detectBackend resolves every path beginning with
\* /v1/messages or /anthropic/ to 'anthropic'; every other path beginning with
\* /v1/ or /openai/, and every other path containing /chat/completions or
\* /completions, to 'openai'; every remaining path to null.
C25_BackendResolution ==
    result # NoArgs =>
        LET endpoint == args.endpoint IN
        result.backend =
            IF \/ StartsWith(endpoint, <<"/", "v1", "/", "messages">>)
               \/ StartsWith(endpoint, <<"/", "anthropic", "/">>)
            THEN "anthropic"
            ELSE IF \/ StartsWith(endpoint, <<"/", "v1", "/">>)
                    \/ StartsWith(endpoint, <<"/", "openai", "/">>)
                    \/ Includes(endpoint, <<"/", "chat", "/", "completions">>)
                    \/ Includes(endpoint, <<"/", "completions">>)
            THEN "openai"
            ELSE "null"

(***************************************************************************)
(* The headers sent upstream (SpecHeaders)                                 *)
(***************************************************************************)
\* the headers sent upstream, as a function of the backend, the provider's
\* credential and three headers of the client, and of nothing else
UpstreamHeaders(backend, apiKey, original) ==
    LET auth == IF backend = "openai"
                THEN [n \in {"Content-Type", "Authorization"} |->
                         IF n = "Content-Type" THEN "application/json"
                         ELSE "Bearer " \o apiKey]
                ELSE [n \in {"Content-Type", "x-api-key", "anthropic-version"} |->
                         IF n = "Content-Type" THEN "application/json"
                         ELSE IF n = "x-api-key" THEN apiKey ELSE "2023-06-01"]
        copied == {n \in {"user-agent", "accept", "accept-encoding"} :
                      n \in DOMAIN original /\ original[n] # ""}
    IN  [n \in DOMAIN auth \cup copied |-> IF n \in copied THEN original[n] ELSE auth[n]]

\* C26: the headers sent upstream are Content-Type, the provider's own
\* authentication headers built from the gateway's provider credential, and
\* the client's user-agent, accept and accept-encoding when present: no other
\* header of the client, and never the value of the caller's X-API-Key, whatever
\* the client sends.
C26_UpstreamHeaders ==
    (result # NoArgs /\ ~result.threw) =>
        /\ result.headers = UpstreamHeaders(args.backend, args.apiKey, args.headers)
        /\ \A n \in DOMAIN result.headers : result.headers[n] \notin {"gw_a", "gw_b"}
        /\ {"authorization", "cookie"} \cap DOMAIN result.headers = {}

\* a client sends its gateway key, a cookie and a user agent to the Anthropic
\* backend: upstream go the provider's credential and the user agent
C26_Witness ==
    /\ result # NoArgs /\ ~result.threw
    /\ args.backend = "anthropic"
    /\ DOMAIN args.headers = {"x-api-key", "cookie", "user-agent"}
    /\ args.headers["x-api-key"] = "gw_a" /\ args.headers["user-agent"] = "curl/8"
    /\ DOMAIN result.headers = {"Content-Type", "x-api-key", "anthropic-version", "user-agent"}
    /\ result.headers["x-api-key"] = "sk-provider"

(***************************************************************************)
(* Failures of forwarding (SpecForward)                                    *)
(***************************************************************************)
\* C27: forwardRequest never throws: a failure while forwarding (no provider
\* credential, a network error, an unreadable body) becomes a returned response
\* with status 502 whose body names the backend, and the request is answered
\* with it, never by the 500 handler of the pipeline.
C27_ForwardNeverThrows ==
    \A r \in AllReqs :
        LET q == req[r] IN
        "forward_failed" \in q.fx =>
            /\ q.fwdError \in ForwardErrors
            /\ IsSet(q.fwd) /\ q.fwd.statusCode = 502
            /\ q.fwd.body = JO(<< <<"error", JS("Bad Gateway")>>,
                                  <<"message", JS(q.backend)>> >>)
            /\ q.pc = "done" => q.statusCode = 502 /\ q.resBody = q.fwd.body

\* a request to OpenAI fails for want of a credential and one to Anthropic on
\* an unreadable body: both are answered 502
C27_Witness ==
    \E r1, r2 \in AllReqs :
        /\ req[r1].fwdError = "credential" /\ req[r1].backend = "openai"
        /\ req[r2].fwdError = "body" /\ req[r2].backend = "anthropic"
        /\ \A r \in {r1, r2} : req[r].pc = "done" /\ req[r].statusCode = 502

(***************************************************************************)
(* Pricing (SpecPricing)                                                   *)
(***************************************************************************)
\* the places in the table of the keys that equal the name, and of those the
\* name in lower case contains
KeysEqual(model) == {i \in 1..Len(PRICING_TABLE) : PRICING_TABLE[i][1] = model}
KeysWithin(model) ==
    {i \in 1..Len(PRICING_TABLE) :
        Includes(NameParts(model), NameParts(PRICING_TABLE[i][1]))}

\* C28: getModelPricing returns the entry whose key equals the model name when
\* there is one; otherwise the first entry, in table order, whose key is a
\* case-insensitive substring of the name; otherwise null.
C28_PricingLookup ==
    (result # NoArgs /\ result.fn = "getModelPricing") =>
        IF KeysEqual(args.model) # {}
        THEN \E i \in KeysEqual(args.model) : result.value = PRICING_TABLE[i][2]
        ELSE IF KeysWithin(args.model) # {}
        THEN \E i \in KeysWithin(args.model) :
                /\ \A j \in KeysWithin(args.model) : i <= j
                /\ result.value = PRICING_TABLE[i][2]
        ELSE result.value = NoPricing

\* the same for names that are not names of members of Object.prototype
C28_PricingLookupOwnKeys ==
    (result # NoArgs /\ args.model \notin ObjectPrototype) => C28_PricingLookup

\* gpt-3.5-turbo-16k-0613 contains two keys: the one that comes first in the
\* table, gpt-3.5-turbo, is the one whose prices are returned
C28_Witness ==
    /\ result # NoArgs /\ result.fn = "getModelPricing"
    /\ args.model = "gpt-3.5-turbo-16k-0613"
    /\ Cardinality(KeysWithin(args.model)) = 2
    /\ result.value = Price(150, 200)

\* a priced model: the table has a key equal to the name or within it
Priced(model) == KeysEqual(model) \cup KeysWithin(model) # {}

\* the prices of a priced model, in units of 10^-8 USD for a token
PriceOf(model) ==
    IF KeysEqual(model) # {}
    THEN PRICING_TABLE[CHOOSE i \in KeysEqual(model) : TRUE][2]
    ELSE PRICING_TABLE[CHOOSE i \in KeysWithin(model) :
                           \A j \in KeysWithin(model) : i <= j][2]

\* the result of calculateCost is p * promptPricePerToken
\* + c * completionPricePerToken in the numbers of the program
CostIsSumOfProducts ==
    (result # NoArgs /\ result.fn = "calculateCost" /\ Priced(args.model)) =>
        result.value
            = FloatAdd(FloatMul(args.promptTokens,
                                FloatPrice(PriceOf(args.model).promptPricePerToken)),
                       FloatMul(args.completionTokens,
                                FloatPrice(PriceOf(args.model).completionPricePerToken)))

\* totalCost = promptCost + completionCost
BreakdownAddsUp ==
    (result # NoArgs /\ result.fn = "getCostBreakdown" /\ Priced(args.model)) =>
        result.value.totalCost
            = FloatAdd(result.value.promptCost, result.value.completionCost)

Gpt4Example ==
    /\ result # NoArgs /\ result.fn = "calculateCost"
    /\ args.model = "gpt-4" /\ args.promptTokens = 20 /\ args.completionTokens = 50

\* C29 as stated: for every priced model and all token counts calculateCost is
\* p * promptPricePerToken + c * completionPricePerToken, for gpt-4 with 20
\* prompt and 50 completion tokens it is exactly 0.0036, and totalCost of
\* getCostBreakdown equals promptCost + completionCost.
C29_CostExact ==
    /\ CostIsSumOfProducts
    /\ Gpt4Example => result.value = Decimal(36, 4)
    /\ BreakdownAddsUp

\* C29, amended: the sum of products is computed in doubles and agrees with
\* the exact sum to 8 decimals; for gpt-4 with 20 and 50 tokens it is not the
\* number 0.0036 but prints as 0.0036 with 4 decimals and as 0.00360000 with 8;
\* totalCost equals promptCost + completionCost.
C29_CostRounded ==
    /\ CostIsSumOfProducts
    /\ (result # NoArgs /\ result.fn = "calculateCost" /\ Priced(args.model)) =>
          ToFixed(result.value, 8)
              = args.promptTokens * PriceOf(args.model).promptPricePerToken
                + args.completionTokens * PriceOf(args.model).completionPricePerToken
    /\ Gpt4Example => /\ result.value # Decimal(36, 4)
                      /\ ToFixed(result.value, 4) = 36
    /\ BreakdownAddsUp

\* calculateCost('gpt-4', 20, 50) has returned a number that prints as 0.0036
C29_Witness == Gpt4Example /\ ToFixed(result.value, 4) = 36 /\ result.value.m # <<>>

(***************************************************************************)
(* Detection of AI responses (SpecDetect)                                  *)
(***************************************************************************)
\* the body is an object with a member k that is not empty (null, "", 0, false)
BodyHas(k) ==
    /\ Tag(args.responseBody) = "o"
    /\ HasKey(args.responseBody, k)
    /\ GetField(args.responseBody, k) \notin {JNull, JS(""), JN(0), JB(FALSE)}

BodyIsMessage ==
    HasKey(args.responseBody, "type") /\ GetField(args.responseBody, "type") = JS("message")

\* the number in member f of the usage, 0 when there is none
UsageNumber(f) ==
    LET u == GetField(args.responseBody, "usage") IN
    IF HasKey(u, f) THEN GetField(u, f)[2] ELSE 0

\* the result is an AI response with the given token counts
ClassifiedAI(p, c, t) ==
    /\ result.isAIResponse
    /\ result.model = GetField(args.responseBody, "model")
    /\ result.usage = [promptTokens |-> p, completionTokens |-> c, totalTokens |-> t]

ClassifiedNotAI ==
    /\ ~result.isAIResponse
    /\ result.costUsd = 0 /\ result.model = JNull /\ result.usage = NoRec

\* the classification of bodies whose usage and model are there, when those
\* that satisfy named do count as having a model
Classification(named) ==
    result # NoArgs =>
        IF BodyHas("usage") /\ BodyHas("model") /\ named /\ BodyIsMessage
        THEN ClassifiedAI(UsageNumber("input_tokens"), UsageNumber("output_tokens"),
                          UsageNumber("input_tokens") + UsageNumber("output_tokens"))
        ELSE IF BodyHas("usage") /\ BodyHas("model") /\ named
        THEN ClassifiedAI(UsageNumber("prompt_tokens"), UsageNumber("completion_tokens"),
                          UsageNumber("total_tokens"))
        ELSE ClassifiedNotAI

UnpricedAnswer(r) ==
    /\ "forward" \in req[r].fx
    /\ HasKey(req[r].fwd.body, "model")
    /\ ~Priced(GetField(req[r].fwd.body, "model")[2])

\* the usage records of request r
UsageRowsOf(r) == {i \in DOMAIN requests : requests[i].r = r}

\* the parts of C31 about the cost, the ledger and the outcome: the cost is 0,
\* the ledger is neither read nor written, the client gets the answer
UnpricedCostsNothing ==
    \A r \in AllReqs :
        UnpricedAnswer(r) =>
            /\ req[r].costInfo.costUsd = 0
            /\ req[r].fx \cap {"budget_get", "budget_get_failed", "budget_set",
                               "budget_set_failed"} = {}
            /\ \A i \in UsageRowsOf(r) : requests[i].costUsd = 0
            /\ req[r].pc = "done" => req[r].statusCode = req[r].fwd.statusCode

\* C31: an answer whose model matches no pricing entry yields cost 0 and is
\* marked as untracked: it is not counted as AI usage, the ledger is not
\* updated and its usage record attributes no tokens; nothing throws.
C31_UnpricedIsUntracked ==
    /\ UnpricedCostsNothing
    /\ \A r \in AllReqs :
          UnpricedAnswer(r) =>
              /\ ~req[r].costInfo.isAIResponse
              /\ \A i \in UsageRowsOf(r) : requests[i].tokensUsed = 0

(***************************************************************************)
(* Admissions across minute boundaries (SpecWindow)                        *)
(***************************************************************************)
\* the requests of the user and endpoint of q that rateLimiter has admitted on
\* a count taken at a second in from..to
AdmittedWithin(q, from, to, S) ==
    {s \in S : /\ RateDecided(req[s]) /\ Admitted(req[s])
               /\ req[s].apiKey.userId = q.apiKey.userId /\ req[s].path = q.path
               /\ from <= req[s].rlAt /\ req[s].rlAt <= to}

\* no span of 60 seconds (the seconds t to t + 59) that starts with the count of
\* a request of S holds more than twice the quota of admitted requests of S
AtMostTwiceQuota(S) ==
    \A r \in S :
        RateDecided(req[r]) =>
            Cardinality(AdmittedWithin(req[r], req[r].rlAt,
                                       req[r].rlAt + SecondsPerMinute - 1, S))
                <= 2 * RateLimitOf(req[r].apiKey)

SameKeyBefore(q) ==
    {s \in AllReqs : /\ req[s].ordinal > 0 /\ req[s].rlKey = q.rlKey
                     /\ req[s].apiKey.id = q.apiKey.id
                     /\ req[s].ordinal <= q.ordinal}

\* C33: counters are kept per API key, endpoint and minute: a request made
\* with one API key never increments the counter of a different API key, and is
\* never denied because of it (a denied request is one of more than N made with
\* its own key), also when both keys belong to one user.
C33_CountersPerApiKey ==
    \A r \in AllReqs :
        req[r].ordinal > 0 =>
            /\ \A s \in AllReqs :
                  (req[s].ordinal > 0 /\ req[s].apiKey.id # req[r].apiKey.id)
                      => req[s].rlKey # req[r].rlKey
            /\ (RateDecided(req[r]) /\ InBucket(req[r]) /\ req[r].statusCode = 429)
                  => Cardinality(SameKeyBefore(req[r])) > RateLimitOf(req[r].apiKey)

\* the same for the requests of one user: they share one counter, and a denied
\* request is one of more than N of its user
C33_CountersPerUser ==
    \A r \in AllReqs :
        req[r].ordinal > 0 =>
            /\ req[r].rlKey[1] = req[r].apiKey.userId
            /\ (RateDecided(req[r]) /\ InBucket(req[r]) /\ req[r].statusCode = 429)
                  => req[r].ordinal > RateLimitOf(req[r].apiKey)

(***************************************************************************)
(* middleware/rateLimiter: burstRateLimiter(maxRequests, windowMinutes).   *)
(* The middleware is mounted on one endpoint for one user; args holds its  *)
(* two parameters and result[r] the state of request r passing through it. *)
(***************************************************************************)
NumBurstReqs == 3
SecondsPerHour == 3600

BurstReqs == 1..NumBurstReqs
BurstWindows == {30, 60, 120}        \* windowMinutes
BurstLimits == {1, 2}                \* maxRequests

\* the minutes at which the clock is read
BurstInstants == <<0, 10, 35, 45, 125>>

BurstIdle ==
    [pc |-> "idle", t |-> 0, key |-> None, count |-> 0, at |-> 0, ordinal |-> 0,
     statusCode |-> NoResponse, retryAfter |-> 0, next |-> 0, doneAt |-> 0, fx |-> {}]

\* new Date(now.getTime() - (now.getTime() % (windowMinutes * 60 * 1000)))
WindowStart(t, windowMinutes) == t - (t % (windowMinutes * SecondsPerMinute))

\* windowStart.toISOString().substring(0, 13): YYYY-MM-DDTHH, the UTC hour
WindowKey(windowStart) == <<"hour", windowStart \div SecondsPerHour>>

\* `burst_limit:${userId}:${endpoint}:${windowKey}`
BurstKey(userId, endpoint, t, windowMinutes) ==
    <<"burst_limit", userId, endpoint, WindowKey(WindowStart(t, windowMinutes))>>

\* the decision after the counter calls: 429, or next()
BurstDecide(b, maxRequests, windowMinutes) ==
    IF b.count > maxRequests
    THEN With(b, [pc |-> "done", statusCode |-> 429,
                  retryAfter |-> windowMinutes * SecondsPerMinute])
    ELSE With(b, [pc |-> "done", next |-> b.next + 1])

SetBurst(r, b) == result' = [result EXCEPT ![r] = b]

\* the middleware from its entry up to `await incrementCounter(burstKey)`
BurstEnter(r) ==
    /\ result[r].pc = "idle"
    /\ \A s \in BurstReqs : s < r => result[s].pc # "idle"
    /\ SetBurst(r, IF ~features_rateLimiting
                   THEN With(result[r], [pc |-> "done", next |-> 1, doneAt |-> now])
                   ELSE With(result[r],
                             [pc |-> "incr", t |-> now,
                              key |-> BurstKey("alice", PathChat, now,
                                               args.windowMinutes)]))
    /\ UNCHANGED <<now, req, counters, cacheStore, budgetStore, requests, incrs, cacheLog,
                   faults, args>>

\* incrementCounter(burstKey); a failure is caught and the request goes on
BurstIncr(r, sc) ==
    /\ result[r].pc = "incr"
    /\ \E ok \in Outcomes(sc, "incr") :
          /\ Fault(ok)
          /\ IF ok
             THEN LET k == result[r].key
                      after == RedisIncr(counters, k)
                      b == With(result[r],
                                [count |-> after[k].val, at |-> now,
                                 ordinal |-> 1 + Cardinality({s \in BurstReqs :
                                                                result[s].ordinal > 0}),
                                 fx |-> result[r].fx \cup {"incr"}])
                  IN /\ counters' = after
                     /\ incrs' = Bump(incrs, k)
                     /\ SetBurst(r, IF b.count = 1 THEN With(b, [pc |-> "expire"])
                                    ELSE With(BurstDecide(b, args.maxRequests,
                                                          args.windowMinutes),
                                              [doneAt |-> now]))
             ELSE /\ SetBurst(r, With(result[r],
                                      [pc |-> "done", next |-> result[r].next + 1,
                                       doneAt |-> now,
                                       fx |-> result[r].fx \cup {"error"}]))
                  /\ UNCHANGED <<counters, incrs>>
    /\ UNCHANGED <<now, req, cacheStore, budgetStore, requests, cacheLog, args>>

\* setExpiration(burstKey, windowMinutes * 60), which swallows a failure
BurstExpire(r, sc) ==
    /\ result[r].pc = "expire"
    /\ \E ok \in Outcomes(sc, "expire") :
          /\ Fault(ok)
          /\ counters' = IF ok
                         THEN RedisExpire(counters, result[r].key,
                                          args.windowMinutes * SecondsPerMinute, now)
                         ELSE counters
    /\ SetBurst(r, With(BurstDecide(result[r], args.maxRequests, args.windowMinutes),
                        [doneAt |-> now]))
    /\ UNCHANGED <<now, req, cacheStore, budgetStore, requests, incrs, cacheLog, args>>

\* time passes to the next instant; Redis drops the keys that expire
TickBurst ==
    /\ \E i \in 1..(Len(BurstInstants) - 1) :
          /\ now = BurstInstants[i] * SecondsPerMinute
          /\ now' = BurstInstants[i + 1] * SecondsPerMinute
    /\ counters' = Purge(counters, now')
    /\ UNCHANGED <<req, cacheStore, budgetStore, requests, incrs, cacheLog, faults, args,
                   result>>

BurstScenario == [faults |-> {"incr", "expire"}, maxFaults |-> MaxFaults]

InitBurst ==
    /\ InitPipeline
    /\ args \in [maxRequests : BurstLimits, windowMinutes : BurstWindows]
    /\ result = [r \in BurstReqs |-> BurstIdle]

NextBurst ==
    \/ \E r \in BurstReqs : BurstEnter(r)
    \/ \E r \in BurstReqs : BurstIncr(r, BurstScenario)
    \/ \E r \in BurstReqs : BurstExpire(r, BurstScenario)
    \/ TickBurst

SpecBurst == InitBurst /\ [][NextBurst]_vars

\* the W-minute window an instant falls in
WindowOf(t) == t \div (args.windowMinutes * SecondsPerMinute)

\* request r has been counted and decided
BurstCounted(r) == result[r].pc = "done" /\ result[r].ordinal > 0

\* the counter store has been available, no request is inside the middleware,
\* and each one passed through it at the instant it read the clock
BurstQuiet ==
    /\ faults = 0
    /\ \A r \in BurstReqs : \/ result[r].pc = "idle"
                            \/ result[r].pc = "done" /\ result[r].doneAt = result[r].t

\* the position of request r among the counted requests of its window
WindowRank(r) ==
    Cardinality({s \in BurstReqs : /\ result[s].ordinal > 0
                                   /\ result[s].ordinal <= result[r].ordinal
                                   /\ WindowOf(result[s].t) = WindowOf(result[r].t)})

BurstWindowing ==
    \A r \in BurstReqs :
        BurstCounted(r) =>
            /\ result[r].count = WindowRank(r)
            /\ \A s \in BurstReqs :
                  (result[s].ordinal > 0 /\ WindowOf(result[s].t) # WindowOf(result[r].t))
                      => result[s].key # result[r].key
            /\ IF WindowRank(r) <= args.maxRequests
               THEN result[r].statusCode = NoResponse /\ result[r].next = 1
               ELSE /\ result[r].statusCode = 429 /\ result[r].next = 0
                    /\ result[r].retryAfter = args.windowMinutes * SecondsPerMinute

\* C34: for any window length W in minutes, shorter or longer than an hour,
\* with the counter store available: within one W-minute window the first
\* maxRequests requests are admitted and every later one gets 429 with
\* retryAfter = W*60, and requests in different windows are counted in
\* different buckets, the count starting again at 1 in each new window.
C34_BurstWindows == BurstQuiet => BurstWindowing

\* the same for window lengths of an hour or more
C34_BurstWindowsOfHours ==
    (BurstQuiet /\ args.windowMinutes * SecondsPerMinute >= SecondsPerHour)
        => BurstWindowing

\* a request denied in a window of two hours, and a count restarted in a new
\* window of one hour
C34_Reached ==
    \/ /\ args.windowMinutes = 120 /\ BurstQuiet
       /\ \E r \in BurstReqs : BurstCounted(r) /\ result[r].statusCode = 429
    \/ /\ args.windowMinutes = 60 /\ BurstQuiet
       /\ \E r \in BurstReqs : BurstCounted(r) /\ result[r].count = 1 /\ result[r].ordinal > 1

(***************************************************************************)
(* The miss branch when a bookkeeping call never settles.  The handler     *)
(* awaits trackBudget, collectMetrics and setCachedResponse one after the  *)
(* other, and neither the Redis clients nor the PostgreSQL pool are given  *)
(* a timeout: a call whose promise stays pending suspends the handler.     *)
(***************************************************************************)
BookkeepingCalls == {"bud_read", "bud_write", "bud_status", "met_store", "met_publish",
                     "cache_set"}

\* the call request r awaits stays pending for ever
Hang(r) ==
    /\ req[r].pc \in BookkeepingCalls
    /\ SetReq(r, With(req[r], [pc |-> "hung", fx |-> req[r].fx \cup {"hung"}]))
    /\ UNCHANGED <<now, counters, cacheStore, budgetStore, requests, incrs, cacheLog, faults,
                   args, result>>

HangScenario ==
    [reqs |-> 1..NumReqs,
     hdrs |-> {"gw_b"},
     paths |-> {PathChat},
     bodies |-> {BodyHello},
     resps |-> {RespChat, RespUpstreamError},
     faults |-> {},
     maxFaults |-> 0]

\* what request r does next: a call it awaits settles, or one stays pending
ResumeOrHang(r) ==
    \/ AuthLookup(r, HangScenario) \/ RlIncr(r, HangScenario) \/ RlExpire(r, HangScenario)
    \/ StepHit(r, HangScenario) \/ StepMiss(r, HangScenario) \/ StepBudget(r, HangScenario)
    \/ Hang(r)

NextHang == \E r \in AllReqs : Arrive(r, HangScenario) \/ ResumeOrHang(r)

\* SpecHang: the pipeline for one key, one endpoint and one body, every store
\* answering without error, where each bookkeeping call of the miss branch
\* either settles or stays pending; a request whose call can settle or hang is
\* not left waiting without either happening.
SpecHang == Init /\ [][NextHang]_vars /\ \A r \in 1..NumReqs : WF_vars(ResumeOrHang(r))

\* C35: a bookkeeping stage that never completes does not stop the client from
\* receiving the response: once forwardRequest has returned, the response is
\* eventually sent.
C35_ResponseAfterForwarding ==
    \A r \in 1..NumReqs : Forwarded(r) ~> (req[r].sent = 1)

\* a request whose bookkeeping call stays pending has been forwarded and is
\* never answered; every other request that was forwarded is answered
C35_HungIsNeverAnswered ==
    /\ [](\A r \in 1..NumReqs :
             "hung" \in req[r].fx => Forwarded(r) /\ req[r].sent = 0 /\ req[r].pc = "hung")
    /\ \A r \in 1..NumReqs : Forwarded(r) ~> (req[r].sent = 1 \/ req[r].pc = "hung")

\* a forwarded request is suspended on a pending call while another request
\* has been answered
C35_Reached ==
    \E r, s \in 1..NumReqs :
        /\ req[r].pc = "hung" /\ Forwarded(r) /\ req[r].sent = 0
        /\ req[s].pc = "done" /\ Forwarded(s) /\ req[s].sent = 1

(***************************************************************************)
(* The remaining count rateLimiter reports (SpecRate)                      *)
(***************************************************************************)
\* the requests counted in the bucket of r after r
LaterInBucket(r) ==
    {s \in AllReqs : /\ RateDecided(req[s]) /\ InBucket(req[s])
                     /\ BucketOf(req[s]) = BucketOf(req[r])
                     /\ req[s].ordinal > req[r].ordinal}

\* what a decided request reports: max(0, limit - count), which is limit - count
\* when it is admitted and 0, in the header and in the body, when it is denied
RemainingReported(q) ==
    /\ q.remaining = Max(0, q.limit - q.count)
    /\ q.remaining >= 0
    /\ Admitted(q) => q.remaining = q.limit - q.count
    /\ q.statusCode = 429 => q.remaining = 0 /\ Denied(q, q.limit)

NumLedgerCalls == 3

LedgerCalls == 1..NumLedgerCalls
LedgerCosts == {1, 2}

LedgerIdle ==
    [pc |-> "idle", costUsd |-> 0, budgetKey |-> None, readKey |-> None,
     seen |-> 0, seenOwn |-> 0, newSpending |-> 0, before |-> 0, after |-> 0, returned |-> 0, fx |-> {}]

SetCall(c, b) == result' = [result EXCEPT ![c] = b]

\* between the two clock reads of a call no other caller runs
InEntry == \E c \in LedgerCalls : result[c].pc = "entered"

\* addToBudget(userId, costUsd): `const budgetKey = getBudgetKey(userId)`
AddToBudgetEnter(c) ==
    /\ result[c].pc = "idle" /\ ~InEntry
    /\ \A d \in LedgerCalls : d < c => result[d].pc # "idle"
    /\ \E costUsd \in LedgerCosts :
          SetCall(c, With(result[c], [pc |-> "entered", costUsd |-> costUsd,
                                      budgetKey |-> getBudgetKey("alice", now)]))
    /\ UNCHANGED <<now, req, counters, cacheStore, budgetStore, requests, incrs, cacheLog,
                   faults, args>>

\* getCurrentSpending(userId): its own getBudgetKey(userId), then
\* `await getCache(budgetKey)`
GetCurrentSpendingEnter(c) ==
    /\ result[c].pc = "entered"
    /\ SetCall(c, With(result[c], [pc |-> "get", readKey |-> getBudgetKey("alice", now)]))
    /\ UNCHANGED <<now, req, counters, cacheStore, budgetStore, requests, incrs, cacheLog,
                   faults, args>>

\* getCache settles (null when the store fails), getCurrentSpending returns,
\* newSpending is computed and `await setCache(budgetKey, ..)` is issued
GetCurrentSpendingReturn(c, sc) ==
    /\ result[c].pc = "get" /\ ~InEntry
    /\ \E ok \in Outcomes(sc, "budget_get") :
          /\ Fault(ok)
          /\ LET spending == IF ok THEN RedisGet(budgetStore, result[c].readKey) ELSE None IN
             SetCall(c, With(result[c],
                             [pc |-> "set", seen |-> Ledger(result[c].readKey),
                              seenOwn |-> Ledger(result[c].budgetKey),
                              newSpending |-> NewSpending(SpendingOf(spending),
                                                          result[c].costUsd),
                              fx |-> result[c].fx \cup (IF ok THEN {"budget_get"}
                                                         ELSE {"budget_get_failed"})]))
    /\ UNCHANGED <<now, req, counters, cacheStore, budgetStore, requests, incrs, cacheLog,
                   args>>

\* setCache settles (a failure is swallowed) and addToBudget returns newSpending
AddToBudgetReturn(c, sc) ==
    /\ result[c].pc = "set" /\ ~InEntry
    /\ \E ok \in Outcomes(sc, "budget_set") :
          /\ Fault(ok)
          /\ budgetStore' = IF ok
                            THEN RedisSet(budgetStore, result[c].budgetKey,
                                          NumToString(result[c].newSpending),
                                          BudgetTtlSeconds, now)
                            ELSE budgetStore
          /\ SetCall(c, With(result[c],
                             [pc |-> "done", before |-> Ledger(result[c].budgetKey),
                              after |-> IF ok THEN result[c].newSpending
                                        ELSE Ledger(result[c].budgetKey),
                              returned |-> result[c].newSpending,
                              fx |-> result[c].fx \cup (IF ok THEN {"budget_set"}
                                                         ELSE {"budget_set_failed"})]))
    /\ UNCHANGED <<now, req, counters, cacheStore, requests, incrs, cacheLog, args>>

\* the UTC day changes
TickDay ==
    /\ now = 0
    /\ now' = SecondsPerDay
    /\ budgetStore' = Purge(budgetStore, now')
    /\ UNCHANGED <<req, counters, cacheStore, requests, incrs, cacheLog, faults, args,
                   result>>

LedgerScenario == [faults |-> {"budget_get", "budget_set"}, maxFaults |-> MaxMissFaults]

InitLedger ==
    /\ InitPipeline
    /\ args = NoArgs
    /\ result = [c \in LedgerCalls |-> LedgerIdle]

NextLedger ==
    \/ \E c \in LedgerCalls : AddToBudgetEnter(c)
    \/ \E c \in LedgerCalls : GetCurrentSpendingEnter(c)
    \/ \E c \in LedgerCalls : GetCurrentSpendingReturn(c, LedgerScenario)
    \/ \E c \in LedgerCalls : AddToBudgetReturn(c, LedgerScenario)
    \/ TickDay

SpecLedger == InitLedger /\ [][NextLedger]_vars

\* the sum of the costs passed so far to addToBudget under key k by the calls 1..n
RECURSIVE CostsPassed(_, _)
CostsPassed(k, n) ==
    IF n = 0 THEN 0
    ELSE CostsPassed(k, n - 1)
         + (IF result[n].pc # "idle" /\ result[n].budgetKey = k THEN result[n].costUsd ELSE 0)

\* every call so far read the clock twice within one UTC day
SameDayKeys ==
    \A c \in LedgerCalls : result[c].readKey # None => result[c].readKey = result[c].budgetKey

\* C37: the stored daily total of a user never exceeds the sum of the costs
\* passed to addToBudget for that user and day, under every interleaving of
\* concurrent calls and every pattern of store failures.
C37_NeverOverstates ==
    \A k \in DOMAIN budgetStore : Ledger(k) <= CostsPassed(k, NumLedgerCalls)

\* C37 as long as no call has read the clock on both sides of midnight
C37_NeverOverstatesWithinDay == SameDayKeys => C37_NeverOverstates

\* the ledger understates: two calls done, both writes stored, one cost lost
C37_Reached ==
    /\ SameDayKeys
    /\ \E c, d \in LedgerCalls :
          /\ c # d /\ result[c].pc = "done" /\ result[d].pc = "done"
          /\ result[c].budgetKey = result[d].budgetKey
          /\ Ledger(result[c].budgetKey) < result[c].costUsd + result[d].costUsd
          /\ Ledger(result[c].budgetKey) > 0

\* C38: when the read of the current total fails during addToBudget, the
\* stored total for that user and day after the call is not lower than it was
\* before the call, and the total the call reports does not ignore the earlier
\* spend.
C38_FailedReadKeepsSpend ==
    \A c \in LedgerCalls :
        (result[c].pc = "done" /\ "budget_get_failed" \in result[c].fx) =>
            /\ result[c].after >= result[c].before
            /\ result[c].returned >= result[c].seen + result[c].costUsd

\* what a call whose read failed does: it takes the total for 0, reports its
\* own cost as the new total, and stores it unless the write fails too
C38_FailedReadStartsFromZero ==
    \A c \in LedgerCalls :
        (result[c].pc = "done" /\ "budget_get_failed" \in result[c].fx) =>
            /\ result[c].returned = result[c].costUsd
            /\ result[c].after = IF "budget_set" \in result[c].fx THEN result[c].costUsd
                                 ELSE result[c].before

\* a call whose read failed while the ledger held earlier spend
C38_Reached ==
    \E c \in LedgerCalls :
        /\ result[c].pc = "done" /\ "budget_get_failed" \in result[c].fx
        /\ "budget_set" \in result[c].fx /\ result[c].seen > 0
        /\ result[c].readKey = result[c].budgetKey

\* C39: addToBudget reads and writes the same (user, UTC day) key: when the
\* day rolls over while a call is in progress, the call never overwrites one
\* day's total with a value computed from another day's total.
C39_SameKeyReadAndWritten ==
    \A c \in LedgerCalls :
        (result[c].pc \in {"set", "done"} /\ "budget_get" \in result[c].fx) =>
            /\ result[c].readKey = result[c].budgetKey
            /\ result[c].newSpending = result[c].seenOwn + result[c].costUsd

\* the key written is that of the day on which the call was made, whenever
\* the write happens, and the key read is that of the same day or of the next
C39_WritesKeyOfEntry ==
    \A c \in LedgerCalls :
        result[c].pc \in {"get", "set", "done"} =>
            /\ result[c].budgetKey[2] <= Day(now)
            /\ result[c].readKey[2] \in {result[c].budgetKey[2], result[c].budgetKey[2] + 1}
            /\ result[c].readKey[1] = result[c].budgetKey[1]

\* a call made on one day whose write lands on the next, both keys of one day
C39_Reached ==
    \E c \in LedgerCalls :
        /\ result[c].pc = "done" /\ "budget_set" \in result[c].fx
        /\ result[c].readKey = result[c].budgetKey
        /\ result[c].budgetKey[2] < Day(now)

(***************************************************************************)
(* proxyService: normalizeEndpoint.  A path is a sequence of pieces: "/"   *)
(* and words, none of which begins another; a segment may be made of       *)
(* several words, as /apiv1 is of "api" and "v1".                          *)
(***************************************************************************)
MaxPieces == 5

Pieces == {"/", "api", "openai", "anthropic", "v1", "messages"}

\* endpoint.replace(/^\/word/, ''): the regular expression is anchored at the
\* start and matches whatever follows the word
StripPrefix(path, word) ==
    IF StartsWith(path, <<"/", word>>) THEN SubSeq(path, 3, Len(path)) ELSE path

\* a normalizeEndpoint that leaves out the version prefix of OpenAI
normalizeEndpoint_NoVersion(endpoint, backend) ==
    LET stripped == StripPrefix(StripPrefix(StripPrefix(endpoint, "api"), "openai"),
                                "anthropic")
    IN  IF StartsWith(stripped, <<"/">>) THEN stripped ELSE <<"/">> \o stripped

normalizeEndpoint(endpoint, backend) ==
    LET stripped == StripPrefix(StripPrefix(StripPrefix(endpoint, "api"), "openai"),
                                "anthropic")
        slashed == IF StartsWith(stripped, <<"/">>) THEN stripped ELSE <<"/">> \o stripped
    IN  IF backend = "openai" /\ ~StartsWith(slashed, <<"/", "v1", "/">>)
        THEN <<"/", "v1">> \o slashed
        ELSE slashed

\* the request paths: "/" followed by up to MaxPieces - 1 pieces
EndpointPaths ==
    UNION {{<<"/">> \o rest : rest \in [1..n -> Pieces]} : n \in 0..(MaxPieces - 1)}

InitNormalize ==
    /\ InitPipeline
    /\ args \in [endpoint : EndpointPaths, backend : {"openai", "anthropic"}]
    /\ result = NoArgs

\* normalizeEndpoint(endpoint, backend)
CallNormalizeEndpoint ==
    /\ result = NoArgs
    /\ result' = [normalized |-> normalizeEndpoint(args.endpoint, args.backend),
                  again |-> None]
    /\ UNCHANGED <<now, req, counters, cacheStore, budgetStore, requests, incrs, cacheLog,
                   faults, args>>

\* normalizeEndpoint applied to its own result
CallNormalizeAgain ==
    /\ result # NoArgs /\ result.again = None
    /\ result' = [result EXCEPT !.again = normalizeEndpoint(result.normalized, args.backend)]
    /\ UNCHANGED <<now, req, counters, cacheStore, budgetStore, requests, incrs, cacheLog,
                   faults, args>>

NextNormalize == CallNormalizeEndpoint \/ CallNormalizeAgain

SpecNormalize == InitNormalize /\ [][NextNormalize]_vars

GatewayPrefixes == {<<"/", "api">>, <<"/", "openai">>, <<"/", "anthropic">>}

HasGatewayPrefix(path) == \E prefix \in GatewayPrefixes : StartsWith(path, prefix)

\* a leading gateway prefix is removed: of a path that is one gateway prefix
\* followed by a path without one, that path is left, with /v1 put in front
\* for openai unless it starts with /v1/
PrefixRemoved ==
    \A prefix \in GatewayPrefixes :
        LET rest == SubSeq(args.endpoint, 3, Len(args.endpoint)) IN
        (StartsWith(args.endpoint, prefix) /\ StartsWith(rest, <<"/">>)
            /\ ~HasGatewayPrefix(rest)) =>
            result.normalized =
                IF args.backend = "openai" /\ ~StartsWith(rest, <<"/", "v1", "/">>)
                THEN <<"/", "v1">> \o rest
                ELSE rest

\* the result starts with "/", and with /v1/ for openai; the two examples
NormalizedShape ==
    /\ StartsWith(result.normalized, <<"/">>)
    /\ args.backend = "openai" => StartsWith(result.normalized, <<"/", "v1", "/">>)
    /\ normalizeEndpoint(<<"/", "api", "/", "chat", "/", "completions">>, "openai") = PathChat
    /\ normalizeEndpoint(<<"/", "api", "/", "v1", "/", "messages">>, "anthropic")
          = PathMessages

\* C40: normalizeEndpoint removes a leading /api, /openai or /anthropic prefix,
\* returns a path that starts with "/", and with /v1/ for backend openai (the
\* two examples of the tests hold); applying it to its own result changes
\* nothing.
C40_NormalizeIdempotent ==
    result # NoArgs =>
        /\ PrefixRemoved
        /\ NormalizedShape
        /\ result.again # None => result.again = result.normalized

\* C40 where the second application changes nothing for backend openai, and
\* for anthropic when the first result does not itself start with a prefix
C40_NormalizeIdempotentOnStripped ==
    result # NoArgs =>
        /\ PrefixRemoved
        /\ NormalizedShape
        /\ (result.again # None
              /\ (args.backend = "openai" \/ ~HasGatewayPrefix(result.normalized)))
                => result.again = result.normalized

\* a prefix removed and /v1 added for openai, and the second application has
\* changed nothing
C40_Witness ==
    /\ args = [endpoint |-> <<"/", "api", "/", "messages">>, backend |-> "openai"]
    /\ result # NoArgs
    /\ result.normalized = <<"/", "v1", "/", "messages">>
    /\ result.again = result.normalized

====
